---- MODULE Spec2Model ----
(***************************************************************************)
(* The keyboard logic engine of keywerty: SMKeyboard, the orchestrator of  *)
(* per-key state machines (TapKSM, HoldKSM, EagerHoldKSM), its layer stack *)
(* and the action model (KeyAction, KeyActionSet, inversion).              *)
(*                                                                         *)
(* One call of SMKeyboard::transition is one step of the model.  The wall  *)
(* clock the machines sample (Instant::now) is the variable now.           *)
(***************************************************************************)
EXTENDS Integers, Sequences, FiniteSets, TLC

VARIABLES
    layer_mapper,         \* SMKeyboard.layer_mapper: (layer, key) -> KeyConf, fixed at construction
    layer_stack,          \* SMKeyboard.layer_stack: Vec<LayerId>
    state_machines,       \* SMKeyboard.state_machines: HashMap<KeyId, machine>
    state_machine_order,  \* SMKeyboard.state_machine_order: Vec<KeyId>
    now,                  \* the wall clock read by Instant::now()
    trace,                \* history: the events delivered so far, each with the clock, the
                          \* keys of the machine map and the layer stack at delivery, and
                          \* the action sets the step loop queued (key, set) for the event
                          \* (none when the call panicked before its step loop)
    outs,                 \* history: the Vec<Action> returned by each transition call
    harvest,              \* history: the cleanup entries pushed on pending_action_q by the last call
    aborted,              \* a transition call panicked: the thread that owns the engine unwound
    ksm,                  \* a key state machine driven on its own, as the unit tests drive it
    returned,             \* history: each transition call on it: the event, the clock,
                          \* the machine before the call and the Option<KeyActionSet> returned
    device,               \* the evdev device of an EventIter: the input events waiting in
                          \* it, how many arrived, and (history) the events read from it
    events,               \* EventIter.events: Vec<Event<EV_KEY>>
    yielded,              \* history: the Option<Event> returned by each EventIter::next
    subject               \* a KeyActionSet under test: the actions it was built from, the
                          \* set, the results of invert applied in turn, and of get_actions

vars == <<layer_mapper, layer_stack, state_machines, state_machine_order,
          now, trace, outs, harvest, aborted,
          ksm, returned, device, events, yielded, subject>>

\* what a run of the engine leaves alone
bench == <<ksm, returned, device, events, yielded, subject>>

\* what a run that does not use the engine leaves alone
engine == <<layer_mapper, layer_stack, state_machines, state_machine_order,
            trace, outs, harvest, aborted>>

-----------------------------------------------------------------------------
(* Bounds of the exploration *)

\* number of physical keys the driver can report: key ids 1..NumKeys
NumKeys == 3
\* number of transition calls explored
MaxEvents == 4
\* the clock runs from 0 to MaxTime
MaxTime == 3

(* Program constants *)

\* SMKeyboard.default_layer as the example constructs it
default_layer == 0
\* hold_ksm_delay of the seed scenarios (Duration::from_millis(2))
hold_ksm_delay == 2
\* the retap and give-up windows of the double tap machines, equal to each
\* other and to the hold delay as in the default settings
dtkms_retap_delay == 2
dtkms_hold_delay == 2

Keys == 1..NumKeys

-----------------------------------------------------------------------------
(* keys.rs: the action model *)

SendKey(t) == [op |-> "SendKey", v |-> t]
StopKey(t) == [op |-> "StopKey", v |-> t]
PushLayer(l) == [op |-> "PushLayer", v |-> l]
PopLayer(l) == [op |-> "PopLayer", v |-> l]
NoOp == [op |-> "NoOp", v |-> 0]

\* keyboard/mod.rs: enum Action
SendCode(t) == [op |-> "SendCode", v |-> t]
Stop(t) == [op |-> "Stop", v |-> t]

\* a slip in KeyAction::invert: PopLayer is answered by NoOp
KeyAction_invert_pop_noop(a) ==
    CASE a.op = "SendKey" -> StopKey(a.v)
      [] a.op = "StopKey" -> SendKey(a.v)
      [] a.op = "PushLayer" -> PopLayer(a.v)
      [] a.op = "PopLayer" -> NoOp
      [] a.op = "NoOp" -> NoOp

\* KeyAction::invert
KeyAction_invert(a) ==
    CASE a.op = "SendKey" -> StopKey(a.v)
      [] a.op = "StopKey" -> SendKey(a.v)
      [] a.op = "PushLayer" -> PopLayer(a.v)
      [] a.op = "PopLayer" -> PushLayer(a.v)
      [] a.op = "NoOp" -> NoOp

\* KeyActionSet: Single, Double or Triple, kept as the sequence of its members
Single(a1) == <<a1>>
Double(a1, a2) == <<a1, a2>>
Triple(a1, a2, a3) == <<a1, a2, a3>>

\* KeyActionSet::get_actions
get_actions(s) ==
    CASE Len(s) = 1 -> <<s[1]>>
      [] Len(s) = 2 -> <<s[1], s[2]>>
      [] Len(s) = 3 -> <<s[1], s[2], s[3]>>

\* a slip in KeyActionSet::invert: the members are inverted in reverse order
KeyActionSet_invert_reversed(s) ==
    CASE Len(s) = 1 -> Single(KeyAction_invert(s[1]))
      [] Len(s) = 2 -> Double(KeyAction_invert(s[2]), KeyAction_invert(s[1]))
      [] Len(s) = 3 -> Triple(KeyAction_invert(s[3]), KeyAction_invert(s[2]),
                              KeyAction_invert(s[1]))

\* KeyActionSet::invert
KeyActionSet_invert(s) ==
    CASE Len(s) = 1 -> Single(KeyAction_invert(s[1]))
      [] Len(s) = 2 -> Double(KeyAction_invert(s[1]), KeyAction_invert(s[2]))
      [] Len(s) = 3 -> Triple(KeyAction_invert(s[1]), KeyAction_invert(s[2]),
                              KeyAction_invert(s[3]))

\* impl Default for KeyActionSet: a Single NoOp
KeyActionSet_default == Single(NoOp)

\* Option::None of an Option<KeyActionSet>
None == <<>>

-----------------------------------------------------------------------------
(* keyboard/mod.rs: events *)

KeyPress(k) == [type |-> "KeyPress", key |-> k]
KeyRelease(k) == [type |-> "KeyRelease", key |-> k]
Poll == [type |-> "Poll", key |-> 0]

\* Event::is_key_press
is_key_press(event) == event.type = "KeyPress"

-----------------------------------------------------------------------------
(* keys.rs / mapper.rs: key configurations and the table mapper *)

\* KeyConf::Tap(TapKeyConf), KeyConf::Hold(HoldKeyConf), KeyConf::EagerHold(HoldKeyConf)
TapConf(tap) == [kind |-> "Tap", tap |-> tap]
HoldConf(tap, hold) == [kind |-> "Hold", tap |-> tap, hold |-> hold]
EagerHoldConf(tap, hold) == [kind |-> "EagerHold", tap |-> tap, hold |-> hold]
\* KeyConf::DoubleTap(DoubleTapKeyConf), KeyConf::DoubleTapHold(DoubleTapHoldKeyConf)
DoubleTapConf(tap, double_tap) ==
    [kind |-> "DoubleTap", tap |-> tap, double_tap |-> double_tap]
DoubleTapHoldConf(tap, double_tap, hold) ==
    [kind |-> "DoubleTapHold", tap |-> tap, double_tap |-> double_tap, hold |-> hold]
\* Option::None of an Option<KeyConf>
NoConf == [kind |-> "None"]

\* the seed map: key 1 Hold{tap 10, hold 20}, key 2 Tap{PushLayer(1)},
\* key 3 Tap{30} on layer 0 and Tap{33} on layer 1
SeedMap ==
    (<<0, 1>> :> HoldConf(Single(SendKey(10)), Single(SendKey(20))))
    @@ (<<0, 2>> :> TapConf(Single(PushLayer(1))))
    @@ (<<0, 3>> :> TapConf(Single(SendKey(30))))
    @@ (<<1, 3>> :> TapConf(Single(SendKey(33))))

\* the same map with key 1 as the EagerHold variant
EagerMap ==
    (<<0, 1>> :> EagerHoldConf(Single(SendKey(10)), Single(SendKey(20))))
    @@ (<<0, 2>> :> TapConf(Single(PushLayer(1))))
    @@ (<<0, 3>> :> TapConf(Single(SendKey(30))))
    @@ (<<1, 3>> :> TapConf(Single(SendKey(33))))

Mappers == {SeedMap, EagerMap}

\* a map that uses the two remaining KeyConf variants: key 1 DoubleTap,
\* key 2 Hold{tap 10, hold 20}, key 3 DoubleTapHold
DoubleTapMap ==
    (<<0, 1>> :> DoubleTapConf(Single(SendKey(40)), Single(SendKey(41))))
    @@ (<<0, 2>> :> HoldConf(Single(SendKey(10)), Single(SendKey(20))))
    @@ (<<0, 3>> :> DoubleTapHoldConf(Single(SendKey(50)), Single(SendKey(51)),
                                      Single(SendKey(52))))

DoubleTapMappers == {DoubleTapMap}

\* a map with two layer keys: key 1 Tap{PushLayer(1)} on layer 0, key 2
\* Tap{PushLayer(2)} on layer 1, key 3 a different code on each layer;
\* key 2 has no entry on layer 0
LayerMap ==
    (<<0, 1>> :> TapConf(Single(PushLayer(1))))
    @@ (<<1, 2>> :> TapConf(Single(PushLayer(2))))
    @@ (<<0, 3>> :> TapConf(Single(SendKey(30))))
    @@ (<<1, 3>> :> TapConf(Single(SendKey(31))))
    @@ (<<2, 3>> :> TapConf(Single(SendKey(32))))

\* a map whose Hold key selects a layer: key 1 Hold{tap 10, hold PushLayer(1)},
\* key 3 Tap{30} on layer 0 and Tap{33} on layer 1; key 2 has no entry
HoldLayerMap ==
    (<<0, 1>> :> HoldConf(Single(SendKey(10)), Single(PushLayer(1))))
    @@ (<<0, 3>> :> TapConf(Single(SendKey(30))))
    @@ (<<1, 3>> :> TapConf(Single(SendKey(33))))

LayerMappers == {LayerMap, HoldLayerMap}

\* LayerMapper for HashMap: get_conf
HashMap_get_conf(mapper, layer, key) ==
    IF <<layer, key>> \in DOMAIN mapper THEN mapper[<<layer, key>>] ELSE NoConf

\* a slip in the echo mapper: a pair without an entry is answered by a Tap
\* of the default action set
MapOrEchoMapper_get_conf_default(table, layer, key) ==
    IF <<layer, key>> \in DOMAIN table THEN table[<<layer, key>>]
    ELSE TapConf(KeyActionSet_default)

\* a slip in the echo mapper: a pair without an entry is answered by None
MapOrEchoMapper_get_conf_plain(table, layer, key) ==
    IF <<layer, key>> \in DOMAIN table THEN table[<<layer, key>>] ELSE NoConf

\* LayerMapper for MapOrEchoMapper: get_conf; the Option it returns is the
\* entry of the table, or else Some(supplier(key))
MapOrEchoMapper_get_conf(table, layer, key) ==
    LET supplier(k) == TapConf(Single(SendKey(k)))
        found == IF <<layer, key>> \in DOMAIN table THEN table[<<layer, key>>]
                 ELSE NoConf
    IN IF found # NoConf THEN found ELSE supplier(key)

\* the tuple struct MapOrEchoMapper(map)
MapOrEchoMapper(map) == [map |-> map]

\* LayerMapper::get_conf, dispatched on the type of the mapper the engine
\* was built with
get_conf(mapper, layer, key) ==
    IF DOMAIN mapper = {"map"}
    THEN MapOrEchoMapper_get_conf(mapper.map, layer, key)
    ELSE HashMap_get_conf(mapper, layer, key)

-----------------------------------------------------------------------------
(* smkb/tap_ksm.rs *)

\* a slip in the constructor: the cleanup set is the tap set, not its inverse
TapKSM_new_no_invert(watched_key, key_conf) ==
    [kind |-> "Tap",
     cleanup_actions |-> <<key_conf.tap>>,
     conf |-> key_conf,
     finished |-> FALSE,
     watched_key |-> watched_key]

\* TapKSM::new
TapKSM_new(watched_key, key_conf) ==
    [kind |-> "Tap",
     cleanup_actions |-> <<KeyActionSet_invert(key_conf.tap)>>,
     conf |-> key_conf,
     finished |-> FALSE,
     watched_key |-> watched_key]

\* a slip: a finished machine still answers the press of its key
TapKSM_transition_unguarded(m, event) ==
    IF event.type = "KeyPress" /\ event.key = m.watched_key
    THEN [m |-> m, out |-> m.conf.tap]
    ELSE IF event.type = "KeyRelease" /\ event.key = m.watched_key
         THEN [m |-> [m EXCEPT !.finished = TRUE], out |-> None]
    ELSE [m |-> m, out |-> None]

\* a slip: the key of the event is not compared with the watched key
TapKSM_transition_any_key(m, event) ==
    IF m.finished THEN [m |-> m, out |-> None]
    ELSE IF event.type = "KeyPress"
         THEN [m |-> m, out |-> m.conf.tap]
    ELSE IF event.type = "KeyRelease"
         THEN [m |-> [m EXCEPT !.finished = TRUE], out |-> None]
    ELSE [m |-> m, out |-> None]

\* TapKSM::transition: the machine after the event and the Option<KeyActionSet> returned
TapKSM_transition(m, event) ==
    IF m.finished THEN [m |-> m, out |-> None]
    ELSE IF event.type = "KeyPress" /\ event.key = m.watched_key
         THEN [m |-> m, out |-> m.conf.tap]
    ELSE IF event.type = "KeyRelease" /\ event.key = m.watched_key
         THEN [m |-> [m EXCEPT !.finished = TRUE], out |-> None]
    ELSE [m |-> m, out |-> None]

-----------------------------------------------------------------------------
(* hold_ksm.rs *)

\* The cleanup sets of a HoldKSM that has not emitted anything yet: none
HoldKSM_initial_cleanup == <<>>

\* HoldKSM::new; t is Instant::now()
HoldKSM_new(release_delay, watched_key, conf, t) ==
    [kind |-> "Hold",
     release_delay |-> release_delay,
     watched_key |-> watched_key,
     timer_start |-> t,
     state |-> "Created",
     key_conf |-> conf,
     cleanup_actions |-> HoldKSM_initial_cleanup]

\* the result of a HoldKSM::transition arm: next state, timer, returned Option
HoldRes(state, timer_start, out) ==
    [state |-> state, timer_start |-> timer_start, out |-> out]

\* HoldKSM::transition, State::Created arm; t is Instant::now()
HoldKSM_Created(m, event, t) ==
    IF event.type = "KeyPress" /\ event.key = m.watched_key
    THEN HoldRes("Waiting", t, None)
    ELSE HoldRes(m.state, m.timer_start, None)

\* a slip: the release of the watched key is looked at before the threshold
HoldKSM_Waiting_release_first(m, event, t) ==
    IF event.type = "KeyRelease" /\ event.key = m.watched_key
    THEN HoldRes("Released", m.timer_start, m.key_conf.tap)
    ELSE IF \/ (t - m.timer_start) >= m.release_delay
            \/ (event.type = "KeyPress" /\ event.key # m.watched_key)
    THEN HoldRes("Hold", m.timer_start, m.key_conf.hold)
    ELSE HoldRes(m.state, m.timer_start, None)

\* a slip in the threshold test: strictly later than the threshold
HoldKSM_Waiting_strict(m, event, t) ==
    IF \/ (t - m.timer_start) > m.release_delay
       \/ (event.type = "KeyPress" /\ event.key # m.watched_key)
    THEN HoldRes("Hold", m.timer_start, m.key_conf.hold)
    ELSE IF event.type = "KeyRelease" /\ event.key = m.watched_key
    THEN HoldRes("Released", m.timer_start, m.key_conf.tap)
    ELSE HoldRes(m.state, m.timer_start, None)

\* a slip: the press of another key is not taken as a hold
HoldKSM_Waiting_timer_only(m, event, t) ==
    IF (t - m.timer_start) >= m.release_delay
    THEN HoldRes("Hold", m.timer_start, m.key_conf.hold)
    ELSE IF event.type = "KeyRelease" /\ event.key = m.watched_key
    THEN HoldRes("Released", m.timer_start, m.key_conf.tap)
    ELSE HoldRes(m.state, m.timer_start, None)

\* HoldKSM::transition, State::Waiting arm; t is Instant::now()
HoldKSM_Waiting(m, event, t) ==
    IF \/ (t - m.timer_start) >= m.release_delay
       \/ (event.type = "KeyPress" /\ event.key # m.watched_key)
    THEN HoldRes("Hold", m.timer_start, m.key_conf.hold)
    ELSE IF event.type = "KeyRelease" /\ event.key = m.watched_key
    THEN HoldRes("Released", m.timer_start, m.key_conf.tap)
    ELSE HoldRes(m.state, m.timer_start, None)

\* a slip in the Released arm: only an event of the watched key finishes
HoldKSM_Released_keyed(m, event) ==
    IF event.key = m.watched_key
    THEN HoldRes("Finished", m.timer_start, None)
    ELSE HoldRes(m.state, m.timer_start, None)

\* HoldKSM::transition, State::Released arm
HoldKSM_Released(m, event) ==
    HoldRes("Finished", m.timer_start, None)

\* a slip in the Hold arm: the hold set is emitted again while the key is held
HoldKSM_Hold_repeat(m, event) ==
    IF event.type = "KeyRelease" /\ event.key = m.watched_key
    THEN HoldRes("Finished", m.timer_start, None)
    ELSE HoldRes(m.state, m.timer_start, m.key_conf.hold)

\* HoldKSM::transition, State::Hold arm
HoldKSM_Hold(m, event) ==
    IF event.type = "KeyRelease" /\ event.key = m.watched_key
    THEN HoldRes("Finished", m.timer_start, None)
    ELSE HoldRes(m.state, m.timer_start, None)

\* HoldKSM::transition as the source has it; t is Instant::now()
HoldKSM_step(m, event, t) ==
    IF m.state = "Finished" THEN HoldRes(m.state, m.timer_start, None)
    ELSE CASE m.state = "Created" -> HoldKSM_Created(m, event, t)
           [] m.state = "Waiting" -> HoldKSM_Waiting(m, event, t)
           [] m.state = "Released" -> HoldKSM_Released(m, event)
           [] m.state = "Hold" -> HoldKSM_Hold(m, event)

\* The cleanup set of a HoldKSM after a step that emitted out: the inverse of
\* the action set the machine committed to (the specification, sections 4.5
\* and 8a/8b: the Stop matching the hold or tap SendCode comes from cleanup)
HoldKSM_cleanup(m, out) ==
    IF out = None THEN m.cleanup_actions ELSE <<KeyActionSet_invert(out)>>

\* KeyStateMachine::transition for HoldKSM
HoldKSM_transition(m, event, t) ==
    LET r == HoldKSM_step(m, event, t)
    IN [m |-> [m EXCEPT !.state = r.state,
                        !.timer_start = r.timer_start,
                        !.cleanup_actions = HoldKSM_cleanup(m, r.out)],
        out |-> r.out]

-----------------------------------------------------------------------------
(* smkb/helpers.rs, smkb/eager_hold_ksm.rs *)

\* helpers::is_watched_key_pressed
is_watched_key_pressed(m, event) ==
    event.type = "KeyPress" /\ event.key = m.watched_key

\* EagerHoldKSM::new; t is Instant::now()
EagerHoldKSM_new(release_delay, watched_key, conf, t) ==
    [kind |-> "EagerHold",
     release_delay |-> release_delay,
     watched_key |-> watched_key,
     timer_start |-> t,
     state |-> "Created",
     key_conf |-> conf,
     cleanup_actions |-> <<KeyActionSet_default>>]

\* a slip in the Created arm: the inverse of hold is emitted and hold is
\* left for the cleanup
EagerHoldKSM_Created_inverted(m, event, t) ==
    IF is_watched_key_pressed(m, event)
    THEN [m |-> [m EXCEPT !.timer_start = t,
                          !.state = "Waiting",
                          !.cleanup_actions = <<m.key_conf.hold>>],
          out |-> KeyActionSet_invert(m.key_conf.hold)]
    ELSE [m |-> m, out |-> None]

\* EagerHoldKSM::transition, State::Created arm; t is Instant::now()
EagerHoldKSM_Created(m, event, t) ==
    IF is_watched_key_pressed(m, event)
    THEN [m |-> [m EXCEPT !.timer_start = t,
                          !.state = "Waiting",
                          !.cleanup_actions = <<KeyActionSet_invert(m.key_conf.hold)>>],
          out |-> m.key_conf.hold]
    ELSE [m |-> m, out |-> None]

\* a slip in the Waiting arm: the hold set is emitted again on the way to Hold
EagerHoldKSM_Waiting_reemit(m, event, t) ==
    IF \/ (t - m.timer_start) >= m.release_delay
       \/ (event.type = "KeyPress" /\ event.key # m.watched_key)
    THEN [m |-> [m EXCEPT !.state = "Hold"], out |-> m.key_conf.hold]
    ELSE IF event.type = "KeyRelease" /\ event.key = m.watched_key
    THEN [m |-> [m EXCEPT !.state = "Released"],
          out |-> KeyActionSet_invert(m.key_conf.hold)]
    ELSE [m |-> m, out |-> None]

\* EagerHoldKSM::transition, State::Waiting arm; t is Instant::now()
EagerHoldKSM_Waiting(m, event, t) ==
    IF \/ (t - m.timer_start) >= m.release_delay
       \/ (event.type = "KeyPress" /\ event.key # m.watched_key)
    THEN [m |-> [m EXCEPT !.state = "Hold"], out |-> None]
    ELSE IF event.type = "KeyRelease" /\ event.key = m.watched_key
    THEN [m |-> [m EXCEPT !.state = "Released"],
          out |-> KeyActionSet_invert(m.key_conf.hold)]
    ELSE [m |-> m, out |-> None]

\* a slip in the Released arm: the cleanup set is left as the press set it
EagerHoldKSM_Released_stale(m, event) ==
    [m |-> [m EXCEPT !.state = "Finished"], out |-> m.key_conf.tap]

\* EagerHoldKSM::transition, State::Released arm
EagerHoldKSM_Released(m, event) ==
    [m |-> [m EXCEPT !.state = "Finished",
                     !.cleanup_actions = <<KeyActionSet_invert(m.key_conf.tap)>>],
     out |-> m.key_conf.tap]

\* EagerHoldKSM::transition, State::Hold arm
EagerHoldKSM_Hold(m, event) ==
    IF event.type = "KeyRelease" /\ event.key = m.watched_key
    THEN [m |-> [m EXCEPT !.state = "Finished"], out |-> None]
    ELSE [m |-> m, out |-> None]

\* EagerHoldKSM::transition; t is Instant::now()
EagerHoldKSM_transition(m, event, t) ==
    IF m.state = "Finished" THEN [m |-> m, out |-> None]
    ELSE CASE m.state = "Created" -> EagerHoldKSM_Created(m, event, t)
           [] m.state = "Waiting" -> EagerHoldKSM_Waiting(m, event, t)
           [] m.state = "Released" -> EagerHoldKSM_Released(m, event)
           [] m.state = "Hold" -> EagerHoldKSM_Hold(m, event)

-----------------------------------------------------------------------------
(* smkb/double_tap_ksm.rs, smkb/double_tap_hold_ksm.rs: the two machines    *)
(* build_machine does not construct                                         *)

\* KeyId::default()
KeyId_default == 0

\* DoubleTapKSM::new, created at t
DoubleTapKSM_new(retap_threshold, hold_threshold, t) ==
    [kind |-> "DoubleTap",
     retap_threshold |-> retap_threshold,
     hold_threshold |-> hold_threshold,
     state |-> "FirstTap",
     watched_key |-> KeyId_default,
     key_conf |-> [tap |-> KeyActionSet_default, double_tap |-> KeyActionSet_default],
     creation |-> t,
     release_timestamp |-> t,
     initialized |-> FALSE]

\* KSMInit for DoubleTapKSM: init_machine
DoubleTapKSM_init_machine(m, key_id, key_conf, t) ==
    [m EXCEPT !.watched_key = key_id, !.key_conf = key_conf,
              !.creation = t, !.initialized = TRUE]

\* the state DoubleTapKSM::transition moves to, first match of the function
DoubleTapKSM_next_state(m, event, t) ==
    CASE m.state = "FirstTap" ->
            IF event = KeyRelease(m.watched_key)
            THEN [m EXCEPT !.release_timestamp = t, !.state = "FirstRelease"]
            ELSE IF (t - m.creation) > m.hold_threshold
            THEN [m EXCEPT !.state = "Timeout"]
            ELSE IF is_key_press(event)
            THEN [m EXCEPT !.state = "Timeout"]
            ELSE m
      [] m.state = "FirstRelease" ->
            IF (t - m.release_timestamp) > m.retap_threshold
            THEN [m EXCEPT !.state = "Timeout"]
            ELSE IF event = KeyPress(m.watched_key)
            THEN [m EXCEPT !.state = "Retap"]
            ELSE IF is_key_press(event)
            THEN [m EXCEPT !.state = "Timeout"]
            ELSE m
      [] OTHER -> m

\* DoubleTapKSM::transition: the state is advanced, then the value returned
\* is chosen by the new state
DoubleTapKSM_transition(m, event, t) ==
    LET n == DoubleTapKSM_next_state(m, event, t)
    IN [m |-> n,
        out |-> CASE n.state = "FirstTap" -> None
                  [] n.state = "FirstRelease" -> None
                  [] n.state = "Timeout" -> n.key_conf.tap
                  [] n.state = "Retap" -> n.key_conf.double_tap]

\* DoubleTapHoldKSM::new, created at t
DoubleTapHoldKSM_new(hold_threshold, retap_threshold, t) ==
    [kind |-> "DoubleTapHold",
     hold_threshold |-> hold_threshold,
     retap_threshold |-> retap_threshold,
     state |-> "Waiting",
     key_conf |-> [tap |-> KeyActionSet_default, double_tap |-> KeyActionSet_default,
                   hold |-> KeyActionSet_default],
     watched_key |-> KeyId_default,
     created |-> t,
     released |-> t]

\* KSMInit for DoubleTapHoldKSM: init_machine
DoubleTapHoldKSM_init_machine(m, key_id, key_conf, t) ==
    [m EXCEPT !.watched_key = key_id, !.key_conf = key_conf, !.created = t]

\* DoubleTapHoldKSM::transition: the arms of the first match are empty (they
\* hold comments only), so the state is never assigned
DoubleTapHoldKSM_transition(m, event, t) ==
    [m |-> m,
     out |-> CASE m.state = "Waiting" -> None
               [] m.state = "Released" -> None
               [] m.state = "Tap" -> m.key_conf.tap
               [] m.state = "Hold" -> m.key_conf.hold
               [] m.state = "DoubleTap" -> m.key_conf.double_tap]

-----------------------------------------------------------------------------
(* smkb/mod.rs: trait KeyStateMachine, dispatched on the machine's type *)

\* KeyStateMachine::transition
KSM_transition(m, event, t) ==
    CASE m.kind = "Tap" -> TapKSM_transition(m, event)
      [] m.kind = "Hold" -> HoldKSM_transition(m, event, t)
      [] m.kind = "EagerHold" -> EagerHoldKSM_transition(m, event, t)

\* KeyStateMachine::is_finished
is_finished(m) ==
    IF m.kind = "Tap" THEN m.finished ELSE m.state = "Finished"

\* KeyStateMachine::get_cleanup_actions
get_cleanup_actions(m) == m.cleanup_actions

\* KeyStateMachine::get_watched_key
get_watched_key(m) == m.watched_key

-----------------------------------------------------------------------------
(* smkb/mod.rs: SMKeyboard *)

\* a slip: the layer stack is not consulted
get_active_layer_default(ls) == default_layer

\* SMKeyboard::get_active_layer
get_active_layer(ls) ==
    IF Len(ls) > 0 THEN ls[Len(ls)] ELSE default_layer

\* the layer stack without its topmost occurrence of layer l
RECURSIVE RemoveTopmost(_, _)
RemoveTopmost(ls, l) ==
    IF ls = <<>> THEN ls
    ELSE IF ls[Len(ls)] = l THEN SubSeq(ls, 1, Len(ls) - 1)
    ELSE Append(RemoveTopmost(SubSeq(ls, 1, Len(ls) - 1), l), ls[Len(ls)])

\* what the documentation of KeyAction::PopLayer asks for, not what the engine
\* does: PopLayer(l) removes the topmost occurrence of l
handle_key_action_pop_matching(ls, key_action) ==
    CASE key_action.op = "SendKey" ->
            [layer_stack |-> ls, action |-> <<SendCode(key_action.v)>>]
      [] key_action.op = "StopKey" ->
            [layer_stack |-> ls, action |-> <<Stop(key_action.v)>>]
      [] key_action.op = "PushLayer" ->
            [layer_stack |-> Append(ls, key_action.v), action |-> <<>>]
      [] key_action.op = "PopLayer" ->
            [layer_stack |-> RemoveTopmost(ls, key_action.v), action |-> <<>>]
      [] key_action.op = "NoOp" ->
            [layer_stack |-> ls, action |-> <<>>]

\* a slip: PopLayer removes the oldest entry of the stack
handle_key_action_pop_first(ls, key_action) ==
    CASE key_action.op = "SendKey" ->
            [layer_stack |-> ls, action |-> <<SendCode(key_action.v)>>]
      [] key_action.op = "StopKey" ->
            [layer_stack |-> ls, action |-> <<Stop(key_action.v)>>]
      [] key_action.op = "PushLayer" ->
            [layer_stack |-> Append(ls, key_action.v), action |-> <<>>]
      [] key_action.op = "PopLayer" ->
            [layer_stack |-> IF Len(ls) > 0 THEN Tail(ls) ELSE ls, action |-> <<>>]
      [] key_action.op = "NoOp" ->
            [layer_stack |-> ls, action |-> <<>>]

\* SMKeyboard::handle_key_action: the layer stack afterwards and the
\* Option<Action> returned, as a sequence of zero or one action
handle_key_action(ls, key_action) ==
    CASE key_action.op = "SendKey" ->
            [layer_stack |-> ls, action |-> <<SendCode(key_action.v)>>]
      [] key_action.op = "StopKey" ->
            [layer_stack |-> ls, action |-> <<Stop(key_action.v)>>]
      [] key_action.op = "PushLayer" ->
            [layer_stack |-> Append(ls, key_action.v), action |-> <<>>]
      [] key_action.op = "PopLayer" ->
            [layer_stack |-> IF Len(ls) > 0 THEN SubSeq(ls, 1, Len(ls) - 1) ELSE ls,
             action |-> <<>>]
      [] key_action.op = "NoOp" ->
            [layer_stack |-> ls, action |-> <<>>]

\* the todo!() macro: the call panics instead of returning a machine
todo == [kind |-> "todo!"]

\* SMKeyboard::build_machine; t is Instant::now()
build_machine(key_id, key_conf, t) ==
    CASE key_conf.kind = "Tap" ->
            TapKSM_new(key_id, [tap |-> key_conf.tap])
      [] key_conf.kind = "Hold" ->
            HoldKSM_new(hold_ksm_delay, key_id,
                        [tap |-> key_conf.tap, hold |-> key_conf.hold], t)
      [] key_conf.kind = "EagerHold" ->
            EagerHoldKSM_new(hold_ksm_delay, key_id,
                             [tap |-> key_conf.tap, hold |-> key_conf.hold], t)
      [] key_conf.kind = "DoubleTap" -> todo
      [] key_conf.kind = "DoubleTapHold" -> todo

\* HashMap::insert
MapInsert(sm, key_id, machine) ==
    [k \in (DOMAIN sm) \cup {key_id} |-> IF k = key_id THEN machine ELSE sm[k]]

\* a slip: a key without configuration gets a machine of the default TapKeyConf
handle_key_press_event_unmapped(mapper, ls, sm, ord, event, t) ==
    IF ~is_key_press(event) THEN [sm |-> sm, ord |-> ord]
    ELSE LET key_id == event.key
             conf == get_conf(mapper, get_active_layer(ls), key_id)
         IN IF key_id \in DOMAIN sm THEN [sm |-> sm, ord |-> ord]
            ELSE [sm |-> MapInsert(sm, key_id,
                                   IF conf.kind # "None"
                                   THEN build_machine(key_id, conf, t)
                                   ELSE TapKSM_new(key_id, [tap |-> KeyActionSet_default])),
                  ord |-> Append(ord, key_id)]

\* a slip: the press of a key that has a machine rebuilds the machine from the
\* configuration of the layer now active
handle_key_press_event_replace(mapper, ls, sm, ord, event, t) ==
    IF ~is_key_press(event) THEN [sm |-> sm, ord |-> ord]
    ELSE LET key_id == event.key
             conf == get_conf(mapper, get_active_layer(ls), key_id)
         IN IF conf.kind = "None" THEN [sm |-> sm, ord |-> ord]
            ELSE [sm |-> MapInsert(sm, key_id, build_machine(key_id, conf, t)),
                  ord |-> IF key_id \in DOMAIN sm THEN ord ELSE Append(ord, key_id)]

\* a slip: a KeyRelease is handled like a KeyPress
handle_key_press_event_any(mapper, ls, sm, ord, event, t) ==
    IF event.type = "Poll" THEN [sm |-> sm, ord |-> ord]
    ELSE LET key_id == event.key
             conf == get_conf(mapper, get_active_layer(ls), key_id)
         IN IF key_id \in DOMAIN sm THEN [sm |-> sm, ord |-> ord]
            ELSE IF conf.kind # "None"
            THEN [sm |-> MapInsert(sm, key_id, build_machine(key_id, conf, t)),
                  ord |-> Append(ord, key_id)]
            ELSE [sm |-> sm, ord |-> ord]

\* a slip: no test for a machine already watching the key
handle_key_press_event_dup(mapper, ls, sm, ord, event, t) ==
    IF ~is_key_press(event) THEN [sm |-> sm, ord |-> ord]
    ELSE LET key_id == event.key
             conf == get_conf(mapper, get_active_layer(ls), key_id)
         IN IF conf.kind # "None"
            THEN [sm |-> MapInsert(sm, key_id, build_machine(key_id, conf, t)),
                  ord |-> Append(ord, key_id)]
            ELSE [sm |-> sm, ord |-> ord]

\* SMKeyboard::handle_key_press_event: the machine map and the order list afterwards
handle_key_press_event(mapper, ls, sm, ord, event, t) ==
    IF ~is_key_press(event) THEN [sm |-> sm, ord |-> ord]
    ELSE LET key_id == event.key
             conf == get_conf(mapper, get_active_layer(ls), key_id)
         IN IF key_id \in DOMAIN sm THEN [sm |-> sm, ord |-> ord]
            ELSE IF conf.kind # "None"
            THEN [sm |-> MapInsert(sm, key_id, build_machine(key_id, conf, t)),
                  ord |-> Append(ord, key_id)]
            ELSE [sm |-> sm, ord |-> ord]

\* Vec::retain
RECURSIVE Retain(_, _)
Retain(seq, keep) ==
    IF seq = <<>> THEN <<>>
    ELSE (IF Head(seq) \in keep THEN <<Head(seq)>> ELSE <<>>) \o Retain(Tail(seq), keep)

\* a slip: the order list is not pruned
drop_finished_machines_keep_order(sm, ord) ==
    LET finished_machines == {k \in DOMAIN sm : is_finished(sm[k])}
        live == (DOMAIN sm) \ finished_machines
    IN [sm |-> [k \in live |-> sm[k]], ord |-> ord]

\* a slip: the machines are not removed from the map
drop_finished_machines_keep_map(sm, ord) ==
    LET finished_machines == {k \in DOMAIN sm : is_finished(sm[k])}
    IN [sm |-> sm,
        ord |-> Retain(ord, {k \in Keys : k \notin finished_machines})]

\* SMKeyboard::drop_finished_machines: the machine map and the order list afterwards
drop_finished_machines(sm, ord) ==
    LET finished_machines == {k \in DOMAIN sm : is_finished(sm[k])}
        live == (DOMAIN sm) \ finished_machines
    IN [sm |-> [k \in live |-> sm[k]],
        ord |-> Retain(ord, {k \in Keys : k \notin finished_machines})]

\* a slip: the order list is walked from its end
RECURSIVE StepMachines_rev(_, _, _, _, _)
StepMachines_rev(sm, ord, i, event, t) ==
    IF i > Len(ord) THEN [sm |-> sm, q |-> <<>>]
    ELSE LET key_id == ord[Len(ord) - i + 1]
             r == KSM_transition(sm[key_id], event, t)
             rest == StepMachines_rev([sm EXCEPT ![key_id] = r.m], ord, i + 1, event, t)
         IN [sm |-> rest.sm,
             q |-> (IF r.out # None THEN <<[key |-> key_id, set |-> r.out]>> ELSE <<>>)
                   \o rest.q]

\* SMKeyboard::transition, first loop: every machine of the order list is
\* stepped in order; emitted action sets are pushed on pending_action_q
RECURSIVE StepMachines(_, _, _, _, _)
StepMachines(sm, ord, i, event, t) ==
    IF i > Len(ord) THEN [sm |-> sm, q |-> <<>>]
    ELSE LET key_id == ord[i]
             r == KSM_transition(sm[key_id], event, t)
             rest == StepMachines([sm EXCEPT ![key_id] = r.m], ord, i + 1, event, t)
         IN [sm |-> rest.sm,
             q |-> (IF r.out # None THEN <<[key |-> key_id, set |-> r.out]>> ELSE <<>>)
                   \o rest.q]

\* The orders in which HashMap::iter_mut can visit the keys of S
IterOrders(S) ==
    {p \in [1..Cardinality(S) -> S] : \A i, j \in 1..Cardinality(S) : p[i] = p[j] => i = j}

\* a slip in the second loop: the cleanup set of a finished Tap machine is
\* taken from the configuration its key has on the layer active now, not
\* from the machine
RECURSIVE CleanupQueue_relookup(_, _, _)
CleanupQueue_relookup(sm, iter, i) ==
    IF i > Len(iter) THEN <<>>
    ELSE LET conf == get_conf(layer_mapper, get_active_layer(layer_stack), iter[i])
             sets == IF sm[iter[i]].kind = "Tap" /\ conf.kind = "Tap"
                     THEN <<KeyActionSet_invert(conf.tap)>>
                     ELSE get_cleanup_actions(sm[iter[i]])
         IN (IF is_finished(sm[iter[i]])
             THEN [j \in 1..Len(sets) |-> [key |-> iter[i], set |-> sets[j]]]
             ELSE <<>>)
            \o CleanupQueue_relookup(sm, iter, i + 1)

\* SMKeyboard::transition, second loop: the cleanup sets of the finished
\* machines, in the order iter visits the map
RECURSIVE CleanupQueue(_, _, _)
CleanupQueue(sm, iter, i) ==
    IF i > Len(iter) THEN <<>>
    ELSE (IF is_finished(sm[iter[i]])
          THEN [j \in 1..Len(get_cleanup_actions(sm[iter[i]])) |->
                    [key |-> iter[i], set |-> get_cleanup_actions(sm[iter[i]])[j]]]
          ELSE <<>>)
         \o CleanupQueue(sm, iter, i + 1)

\* the key actions of a pending queue, flattened in order
RECURSIVE Flatten(_)
Flatten(q) ==
    IF q = <<>> THEN <<>> ELSE get_actions(Head(q).set) \o Flatten(Tail(q))

\* SMKeyboard::transition, third loop: handle_key_action on every key action
RECURSIVE ApplyAll(_, _)
ApplyAll(ls, kas) ==
    IF kas = <<>> THEN [layer_stack |-> ls, actions |-> <<>>]
    ELSE LET r == handle_key_action(ls, Head(kas))
             rest == ApplyAll(r.layer_stack, Tail(kas))
         IN [layer_stack |-> rest.layer_stack, actions |-> r.action \o rest.actions]

\* the machine built for the press of event is a todo!(): build_machine
\* panics before the machine map is touched
panics(sm, event) ==
    is_key_press(event) /\ event.key \in DOMAIN sm /\ sm[event.key] = todo

\* a slip: the configuration of a pressed key is looked up on the layer that
\* is active once the machines already live have acted on the event
transition_late_lookup(event, iter) ==
    LET ahead == ApplyAll(layer_stack,
                          Flatten(StepMachines(state_machines, state_machine_order,
                                               1, event, now).q)).layer_stack
        pressed == handle_key_press_event(layer_mapper, ahead, state_machines,
                                          state_machine_order, event, now)
        stepped == StepMachines(pressed.sm, pressed.ord, 1, event, now)
        cleanup == CleanupQueue(stepped.sm, iter, 1)
        pending_action_q == stepped.q \o cleanup
        applied == ApplyAll(layer_stack, Flatten(pending_action_q))
        dropped == drop_finished_machines(stepped.sm, pressed.ord)
    IN IF panics(pressed.sm, event)
       THEN /\ aborted' = TRUE
            /\ trace' = Append(trace, [ev |-> event, at |-> now,
                                        live |-> DOMAIN state_machines,
                                        stack |-> layer_stack,
                                        emitted |-> <<>>])
            /\ UNCHANGED <<layer_mapper, layer_stack, state_machines,
                           state_machine_order, now, outs, harvest>>
       ELSE /\ state_machines' = dropped.sm
            /\ state_machine_order' = dropped.ord
            /\ layer_stack' = applied.layer_stack
            /\ outs' = Append(outs, applied.actions)
            /\ harvest' = cleanup
            /\ trace' = Append(trace, [ev |-> event, at |-> now,
                                        live |-> DOMAIN state_machines,
                                        stack |-> layer_stack,
                                        emitted |-> stepped.q])
            /\ UNCHANGED <<layer_mapper, now, aborted>>

\* a slip: the cleanup sets are queued before the sets the machines emitted
transition_cleanup_first(event, iter) ==
    LET pressed == handle_key_press_event(layer_mapper, layer_stack, state_machines,
                                          state_machine_order, event, now)
        stepped == StepMachines(pressed.sm, pressed.ord, 1, event, now)
        cleanup == CleanupQueue(stepped.sm, iter, 1)
        pending_action_q == cleanup \o stepped.q
        applied == ApplyAll(layer_stack, Flatten(pending_action_q))
        dropped == drop_finished_machines(stepped.sm, pressed.ord)
    IN IF panics(pressed.sm, event)
       THEN /\ aborted' = TRUE
            /\ trace' = Append(trace, [ev |-> event, at |-> now,
                                        live |-> DOMAIN state_machines,
                                        stack |-> layer_stack,
                                        emitted |-> <<>>])
            /\ UNCHANGED <<layer_mapper, layer_stack, state_machines,
                           state_machine_order, now, outs, harvest>>
       ELSE /\ state_machines' = dropped.sm
            /\ state_machine_order' = dropped.ord
            /\ layer_stack' = applied.layer_stack
            /\ outs' = Append(outs, applied.actions)
            /\ harvest' = cleanup
            /\ trace' = Append(trace, [ev |-> event, at |-> now,
                                        live |-> DOMAIN state_machines,
                                        stack |-> layer_stack,
                                        emitted |-> stepped.q])
            /\ UNCHANGED <<layer_mapper, now, aborted>>

\* SMKeyboard::transition(event) with the map iterated in the order iter
transition(event, iter) ==
    LET pressed == handle_key_press_event(layer_mapper, layer_stack, state_machines,
                                          state_machine_order, event, now)
        stepped == StepMachines(pressed.sm, pressed.ord, 1, event, now)
        cleanup == CleanupQueue(stepped.sm, iter, 1)
        pending_action_q == stepped.q \o cleanup
        applied == ApplyAll(layer_stack, Flatten(pending_action_q))
        dropped == drop_finished_machines(stepped.sm, pressed.ord)
    IN IF panics(pressed.sm, event)
       THEN /\ aborted' = TRUE
            /\ trace' = Append(trace, [ev |-> event, at |-> now,
                                        live |-> DOMAIN state_machines,
                                        stack |-> layer_stack,
                                        emitted |-> <<>>])
            /\ UNCHANGED <<layer_mapper, layer_stack, state_machines,
                           state_machine_order, now, outs, harvest>>
       ELSE /\ state_machines' = dropped.sm
            /\ state_machine_order' = dropped.ord
            /\ layer_stack' = applied.layer_stack
            /\ outs' = Append(outs, applied.actions)
            /\ harvest' = cleanup
            /\ trace' = Append(trace, [ev |-> event, at |-> now,
                                        live |-> DOMAIN state_machines,
                                        stack |-> layer_stack,
                                        emitted |-> stepped.q])
            /\ UNCHANGED <<layer_mapper, now, aborted>>

\* the keys of the machine map once the press of event has been handled
MapKeysAfterPress(event) ==
    DOMAIN handle_key_press_event(layer_mapper, layer_stack, state_machines,
                                  state_machine_order, event, now).sm

\* the driver delivers one event; a panicked engine takes no more calls
Deliver(event) ==
    /\ ~aborted
    /\ Len(trace) < MaxEvents
    /\ UNCHANGED bench
    /\ \E iter \in IterOrders(MapKeysAfterPress(event)) : transition(event, iter)

-----------------------------------------------------------------------------
(* The driver *)

DoKeyPress(k) == Deliver(KeyPress(k))

DoKeyRelease(k) == Deliver(KeyRelease(k))

DoPoll == Deliver(Poll)

\* a machine samples the clock while it waits for the hold threshold
Waiting(m) == m.kind \in {"Hold", "EagerHold"} /\ m.state = "Waiting"

\* time passes between two calls; the clock is observable only through a
\* machine that is Waiting, so it is advanced only then
Tick ==
    /\ ~aborted
    /\ now < MaxTime
    /\ Len(trace) < MaxEvents
    /\ \E k \in DOMAIN state_machines : Waiting(state_machines[k])
    /\ now' = now + 1
    /\ UNCHANGED <<layer_mapper, layer_stack, state_machines, state_machine_order,
                   trace, outs, harvest, aborted>>
    /\ UNCHANGED bench

\* SMKeyboard::new: no machine, an empty layer stack
New ==
    /\ layer_stack = <<>>
    /\ state_machines = <<>>
    /\ state_machine_order = <<>>
    /\ now = 0
    /\ trace = <<>>
    /\ outs = <<>>
    /\ harvest = <<>>
    /\ aborted = FALSE

\* no machine is driven on its own, no EventIter is open, no set is under test
NoBench ==
    /\ ksm = <<>>
    /\ returned = <<>>
    /\ device = <<>>
    /\ events = <<>>
    /\ yielded = <<>>
    /\ subject = <<>>

\* an engine built with one of the seed maps
Init == layer_mapper \in Mappers /\ New /\ NoBench

\* an engine built with one of the layer maps
InitLayers == layer_mapper \in LayerMappers /\ New /\ NoBench

\* an engine built with a map that holds DoubleTap and DoubleTapHold keys
InitDoubleTap == layer_mapper \in DoubleTapMappers /\ New /\ NoBench

Next ==
    \/ \E k \in Keys : DoKeyPress(k)
    \/ \E k \in Keys : DoKeyRelease(k)
    \/ DoPoll
    \/ Tick

Spec == Init /\ [][Next]_vars

SpecLayers == InitLayers /\ [][Next]_vars

-----------------------------------------------------------------------------
(* A key state machine driven on its own, as the unit tests of the machines do *)

\* the key the machine under test watches and the codes of its configuration
\* (the constants of the tests: watched_key 1, tap 10, hold 20)
watched_key == 1
tap_key_code == 10
hold_key_code == 20

\* build_ksm of the tests, for each machine type
TestMachines ==
    LET tap_action == Single(SendKey(tap_key_code))
        hold_action == Single(SendKey(hold_key_code))
        conf == [tap |-> tap_action, hold |-> hold_action]
    IN {TapKSM_new(watched_key, [tap |-> tap_action]),
        HoldKSM_new(hold_ksm_delay, watched_key, conf, 0),
        EagerHoldKSM_new(hold_ksm_delay, watched_key, conf, 0)}

\* no engine is built
NoEngine == layer_mapper = <<>> /\ New

\* a test builds its machine
InitMachine ==
    /\ ksm \in TestMachines
    /\ returned = <<>>
    /\ device = <<>>
    /\ events = <<>>
    /\ yielded = <<>>
    /\ subject = <<>>
    /\ NoEngine

\* machine.transition(&event), whatever the state of the machine
MachineTransition(event) ==
    /\ Len(returned) < MaxEvents
    /\ LET r == KSM_transition(ksm, event, now)
       IN /\ ksm' = r.m
          /\ returned' = Append(returned, [ev |-> event, at |-> now,
                                            before |-> ksm, out |-> r.out])
    /\ UNCHANGED <<now, device, events, yielded, subject>>
    /\ UNCHANGED engine

\* the test sleeps while the machine waits for the hold threshold
MachineSleep ==
    /\ Len(returned) < MaxEvents
    /\ now < MaxTime
    /\ Waiting(ksm)
    /\ now' = now + 1
    /\ UNCHANGED <<ksm, returned, device, events, yielded, subject>>
    /\ UNCHANGED engine

NextMachine ==
    \/ \E k \in Keys : MachineTransition(KeyPress(k))
    \/ \E k \in Keys : MachineTransition(KeyRelease(k))
    \/ MachineTransition(Poll)
    \/ MachineSleep

SpecMachine == InitMachine /\ [][NextMachine]_vars

-----------------------------------------------------------------------------
(* A double tap machine driven on its own, from the moment its key is pressed *)

double_tap_key_code == 30

\* a DoubleTapKSM and a DoubleTapHoldKSM, each initialized for the watched key
DoubleTapMachines ==
    LET tap_action == Single(SendKey(tap_key_code))
        hold_action == Single(SendKey(hold_key_code))
        double_tap_action == Single(SendKey(double_tap_key_code))
    IN {DoubleTapKSM_init_machine(
            DoubleTapKSM_new(dtkms_retap_delay, dtkms_hold_delay, 0), watched_key,
            [tap |-> tap_action, double_tap |-> double_tap_action], 0),
        DoubleTapHoldKSM_init_machine(
            DoubleTapHoldKSM_new(dtkms_hold_delay, dtkms_retap_delay, 0), watched_key,
            [tap |-> tap_action, double_tap |-> double_tap_action,
             hold |-> hold_action], 0)}

InitDoubleTapMachine ==
    /\ ksm \in DoubleTapMachines
    /\ returned = <<>>
    /\ device = <<>>
    /\ events = <<>>
    /\ yielded = <<>>
    /\ subject = <<>>
    /\ NoEngine

\* machine.transition(event) on a double tap machine
DoubleTapMachineTransition(event) ==
    /\ Len(returned) < MaxEvents
    /\ LET r == IF ksm.kind = "DoubleTap" THEN DoubleTapKSM_transition(ksm, event, now)
                ELSE DoubleTapHoldKSM_transition(ksm, event, now)
       IN /\ ksm' = r.m
          /\ returned' = Append(returned, [ev |-> event, at |-> now,
                                            before |-> ksm, out |-> r.out])
    /\ UNCHANGED <<now, device, events, yielded, subject>>
    /\ UNCHANGED engine

\* time passes between two calls
DoubleTapMachineSleep ==
    /\ Len(returned) < MaxEvents
    /\ now < MaxTime
    /\ now' = now + 1
    /\ UNCHANGED <<ksm, returned, device, events, yielded, subject>>
    /\ UNCHANGED engine

NextDoubleTapMachine ==
    \/ \E k \in Keys : DoubleTapMachineTransition(KeyPress(k))
    \/ \E k \in Keys : DoubleTapMachineTransition(KeyRelease(k))
    \/ DoubleTapMachineTransition(Poll)
    \/ DoubleTapMachineSleep

SpecDoubleTapMachine == InitDoubleTapMachine /\ [][NextDoubleTapMachine]_vars

-----------------------------------------------------------------------------
(* keys.rs on its own: a KeyActionSet is built, inverted and listed *)

\* the layer ids the actions under test name
TestLayers == {default_layer, default_layer + 1}

\* the values of KeyAction<T>, T being the key ids
KeyActions ==
    {SendKey(k) : k \in Keys} \cup {StopKey(k) : k \in Keys}
        \cup {PushLayer(l) : l \in TestLayers} \cup {PopLayer(l) : l \in TestLayers}
        \cup {NoOp}

\* the argument lists of the three constructors
ArgLists ==
    {<<a>> : a \in KeyActions}
        \cup {<<a, b>> : a \in KeyActions, b \in KeyActions}
        \cup {<<a, b, c>> : a \in KeyActions, b \in KeyActions, c \in KeyActions}

\* KeyActionSet::Single / Double / Triple applied to an argument list
KeyActionSet_of(args) ==
    CASE Len(args) = 1 -> Single(args[1])
      [] Len(args) = 2 -> Double(args[1], args[2])
      [] Len(args) = 3 -> Triple(args[1], args[2], args[3])

\* a set is built; nothing was called on it yet
InitKeys ==
    /\ subject \in {[args |-> a, set |-> KeyActionSet_of(a), singly |-> <<>>,
                      inverted |-> <<>>, listed |-> <<>>] : a \in ArgLists}
    /\ ksm = <<>>
    /\ returned = <<>>
    /\ device = <<>>
    /\ events = <<>>
    /\ yielded = <<>>
    /\ NoEngine

\* the value the next call is made on: the set, or the result of the last invert
Current == IF subject.inverted = <<>> THEN subject.set
           ELSE subject.inverted[Len(subject.inverted)]

\* the calls made on the subject so far
KeysCalls == Len(subject.inverted) + Len(subject.listed) + Len(subject.singly)

\* set.invert() on the current value
Invert ==
    /\ KeysCalls < MaxEvents
    /\ subject' = [subject EXCEPT
                      !.inverted = Append(@, KeyActionSet_invert(Current))]
    /\ UNCHANGED <<now, ksm, returned, device, events, yielded>>
    /\ UNCHANGED engine

\* set.get_actions() on the current value, collected
GetActions ==
    /\ KeysCalls < MaxEvents
    /\ subject' = [subject EXCEPT
                      !.listed = Append(@, [of |-> Current, got |-> get_actions(Current)])]
    /\ UNCHANGED <<now, ksm, returned, device, events, yielded>>
    /\ UNCHANGED engine

\* action.invert() on the first argument, or on the result of the last such call
InvertAction ==
    /\ KeysCalls < MaxEvents
    /\ Len(subject.singly) < 2
    /\ subject.inverted = <<>> /\ subject.listed = <<>>
    /\ LET a == IF subject.singly = <<>> THEN subject.args[1]
                ELSE subject.singly[Len(subject.singly)]
       IN subject' = [subject EXCEPT !.singly = Append(@, KeyAction_invert(a))]
    /\ UNCHANGED <<now, ksm, returned, device, events, yielded>>
    /\ UNCHANGED engine

NextKeys == Invert \/ GetActions \/ InvertAction

SpecKeys == InitKeys /\ [][NextKeys]_vars

-----------------------------------------------------------------------------
(* mapper.rs on its own: a MapOrEchoMapper is built and asked *)

\* HashMap::new(), left empty
EmptyTable == [x \in {} |-> NoConf]

\* a table in the shape of build_mapper: a Hold key and a layer key on layer
\* 0, a remapped key on layer 1; the codes are key ids
KeymapTable ==
    (<<0, 1>> :> HoldConf(Single(SendKey(2)), Single(SendKey(3))))
    @@ (<<0, 3>> :> TapConf(Single(PushLayer(1))))
    @@ (<<1, 2>> :> TapConf(Single(SendKey(1))))

EchoTables == {EmptyTable, KeymapTable}

\* the layers a caller asks for: those of the table and one beyond
AskedLayers == 0..2

\* MapOrEchoMapper(map); nothing was asked yet
InitMapper ==
    /\ layer_mapper \in EchoTables
    /\ New
    /\ subject = <<>>
    /\ ksm = <<>>
    /\ returned = <<>>
    /\ device = <<>>
    /\ events = <<>>
    /\ yielded = <<>>

\* mapper.get_conf(&layer, &key), the answer collected
GetConf(layer, key) ==
    /\ Len(subject) < MaxEvents
    /\ subject' = Append(subject,
                         [layer |-> layer, key |-> key,
                          conf |-> MapOrEchoMapper_get_conf(layer_mapper, layer, key)])
    /\ UNCHANGED <<now, ksm, returned, device, events, yielded>>
    /\ UNCHANGED engine

NextMapper == \E layer \in AskedLayers, key \in Keys : GetConf(layer, key)

SpecMapper == InitMapper /\ [][NextMapper]_vars

-----------------------------------------------------------------------------
(* The engine over a MapOrEchoMapper with an empty table, and EchoerKb *)

\* SMKeyboard::new(0, MapOrEchoMapper(HashMap::new()), settings)
InitEcho == layer_mapper = MapOrEchoMapper(EmptyTable) /\ New /\ NoBench

\* the events the driver delivers; no machine of this engine waits for a timer
NextEcho ==
    \/ \E k \in Keys : DoKeyPress(k)
    \/ \E k \in Keys : DoKeyRelease(k)
    \/ DoPoll

SpecEcho == InitEcho /\ [][NextEcho]_vars

\* EchoerKb::transition
EchoerKb_transition(event) ==
    CASE event.type = "KeyPress" -> <<SendCode(event.key)>>
      [] event.type = "KeyRelease" -> <<Stop(event.key)>>
      [] event.type = "Poll" -> <<>>

-----------------------------------------------------------------------------
(* vkwrty monitor.rs: EventIter over an evdev device *)

\* InputEvent of an EV_KEY code: value 0 is a release, 1 a press, 2 an autorepeat
InputEvent(code, value) == [event_code |-> code, value |-> value]
InputValues == {0, 1, 2}

\* Option::None of an Option<Event>
NoEvent == [type |-> "None", key |-> 0]

\* EventIter::map_event
map_event(input_event) ==
    CASE input_event.value = 0 -> KeyRelease(input_event.event_code)
      [] input_event.value = 1 -> KeyPress(input_event.event_code)
      [] OTHER -> NoEvent

\* the events read_all_events pushes for the input events q, in the order of
\* its loop
RECURSIVE Pushed(_)
Pushed(q) ==
    IF q = <<>> THEN <<>>
    ELSE LET event == map_event(Head(q))
         IN IF event # NoEvent THEN <<event>> \o Pushed(Tail(q))
            ELSE Pushed(Tail(q))

\* Vec::pop as next uses it: the last element is removed and returned
Vec_pop(v) ==
    IF v = <<>> THEN [item |-> NoEvent, rest |-> <<>>]
    ELSE [item |-> v[Len(v)], rest |-> SubSeq(v, 1, Len(v) - 1)]

\* EventIter::new: the vector is empty, no input event is waiting
InitMonitor ==
    /\ device = [queue |-> <<>>, arrived |-> 0, read |-> <<>>]
    /\ events = <<>>
    /\ yielded = <<>>
    /\ ksm = <<>>
    /\ returned = <<>>
    /\ subject = <<>>
    /\ NoEngine

\* the kernel queues an input event of the physical keyboard
Arrive(code, value) ==
    /\ device.arrived < MaxTime
    /\ device' = [device EXCEPT !.queue = Append(@, InputEvent(code, value)),
                                !.arrived = @ + 1]
    /\ UNCHANGED <<now, ksm, returned, events, yielded, subject>>
    /\ UNCHANGED engine

\* EventIter::next: when the vector is empty read_all_events drains the
\* device into it, then the vector is popped
EventIter_next ==
    /\ Len(yielded) < MaxEvents
    /\ LET reads == events = <<>>
           batch == IF reads THEN Pushed(device.queue) ELSE <<>>
           popped == Vec_pop(events \o batch)
       IN /\ device' = IF reads
                        THEN [device EXCEPT !.queue = <<>>, !.read = @ \o batch]
                        ELSE device
          /\ events' = popped.rest
          /\ yielded' = Append(yielded, popped.item)
    /\ UNCHANGED <<now, ksm, returned, subject>>
    /\ UNCHANGED engine

NextMonitor ==
    \/ \E code \in Keys, value \in InputValues : Arrive(code, value)
    \/ EventIter_next

SpecMonitor == InitMonitor /\ [][NextMonitor]_vars

SpecDoubleTap == InitDoubleTap /\ [][Next]_vars

-----------------------------------------------------------------------------
(* Reading the history *)

\* the calls made so far
Calls == 1..Len(trace)

\* the event of call i
Ev(i) == trace[i].ev

\* the keys of the machine map after call i returned
LiveAfter(i) == IF i = Len(trace) THEN DOMAIN state_machines ELSE trace[i + 1].live

\* the layer stack after call i returned
StackAfter(i) == IF i = Len(trace) THEN layer_stack ELSE trace[i + 1].stack

\* the outputs of calls i..j, concatenated
RECURSIVE OutFrom(_, _)
OutFrom(i, j) == IF i > j THEN <<>> ELSE outs[i] \o OutFrom(i + 1, j)

\* how often action a occurs in the sequence s
Count(s, a) == Cardinality({n \in 1..Len(s) : s[n] = a})

\* the action sets of a key configuration
ConfSets(c) == IF c.kind = "Tap" THEN {c.tap} ELSE {c.tap, c.hold}

\* the codes an action set sends or stops
SetCodes(s) == {s[n].v : n \in {m \in 1..Len(s) : s[m].op \in {"SendKey", "StopKey"}}}

\* the codes the key configurations of a mapper send or stop
MapperCodes(mp) ==
    UNION {UNION {SetCodes(s) : s \in ConfSets(mp[x])} : x \in DOMAIN mp}

\* the codes of the mappers an engine is built with
Codes == UNION {MapperCodes(mp) : mp \in Mappers}

\* the configuration call i looks up for key k
ConfAt(i, k) == get_conf(layer_mapper, get_active_layer(trace[i].stack), k)

\* a scenario of n calls starts at call i: a key is pressed while no machine is live
Starts(i, n) ==
    i + n - 1 <= Len(trace) /\ trace[i].live = {} /\ Ev(i).type = "KeyPress"

\* conf is of the given kind and its action set s is the single SendKey(c)
IsSend(s, c) == s = Single(SendKey(c))

-----------------------------------------------------------------------------
(* Claims *)

\* C1: whenever no machine is live and the last event delivered was a Poll,
\* the number of SendCode(t) returned so far equals the number of Stop(t)
\* returned so far, for every code t.
C1_SendStopBalanced ==
    (Len(trace) > 0 /\ Ev(Len(trace)) = Poll /\ DOMAIN state_machines = {})
    => \A t \in Codes :
          Count(OutFrom(1, Len(outs)), SendCode(t)) = Count(OutFrom(1, Len(outs)), Stop(t))

\* C2: a Tap{SendKey(c)} key pressed while no machine is live returns exactly
\* [SendCode(c)] in that call; the release that follows returns exactly
\* [Stop(c)] and leaves no machine for the key.
C2_Events(i, k) ==
    Starts(i, 1) /\ Ev(i) = KeyPress(k)

C2_Confs(i, k, c) ==
    ConfAt(i, k).kind = "Tap" /\ IsSend(ConfAt(i, k).tap, c)

C3_Events(i, k) ==
    /\ Starts(i, 3)
    /\ Ev(i) = KeyPress(k)
    /\ Ev(i + 1) = Poll
    /\ trace[i + 1].at - trace[i].at >= hold_ksm_delay
    /\ Ev(i + 2) = KeyRelease(k)

C3_Confs(i, k, h) ==
    ConfAt(i, k).kind = "Hold" /\ IsSend(ConfAt(i, k).hold, h)

C3_HoldTimeout ==
    \A i \in Calls : \A k \in Keys : C3_Events(i, k) => \A h \in Codes :
        C3_Confs(i, k, h) =>
            /\ outs[i + 1] = <<SendCode(h)>>
            /\ outs[i + 2] = <<Stop(h)>>
            /\ OutFrom(i, i + 2) = <<SendCode(h), Stop(h)>>
            /\ k \notin LiveAfter(i + 2)

C3_Witness ==
    \E i \in Calls : \E k \in Keys : \E h \in Codes :
        /\ C3_Events(i, k) /\ C3_Confs(i, k, h)
        /\ OutFrom(i, i + 2) = <<SendCode(h), Stop(h)>>

\* C4: a Hold{tap: SendKey(t), hold} key pressed with no other machine live,
\* released before the hold threshold and then polled: the release returns
\* [SendCode(t)], the Poll returns [Stop(t)], the three calls return exactly
\* [SendCode(t), Stop(t)] and no machine for the key remains.
C4_Events(i, k) ==
    /\ Starts(i, 3)
    /\ Ev(i) = KeyPress(k)
    /\ Ev(i + 1) = KeyRelease(k)
    /\ trace[i + 1].at - trace[i].at < hold_ksm_delay
    /\ Ev(i + 2) = Poll

C4_Confs(i, k, t) ==
    ConfAt(i, k).kind = "Hold" /\ IsSend(ConfAt(i, k).tap, t)

C4_HoldTap ==
    \A i \in Calls : \A k \in Keys : C4_Events(i, k) => \A t \in Codes :
        C4_Confs(i, k, t) =>
            /\ outs[i + 1] = <<SendCode(t)>>
            /\ outs[i + 2] = <<Stop(t)>>
            /\ OutFrom(i, i + 2) = <<SendCode(t), Stop(t)>>
            /\ k \notin LiveAfter(i + 2)

C4_Witness ==
    \E i \in Calls : \E k \in Keys : \E t \in Codes :
        /\ C4_Events(i, k) /\ C4_Confs(i, k, t)
        /\ OutFrom(i, i + 2) = <<SendCode(t), Stop(t)>>

\* C5: a waiting Hold key k (hold: SendKey(h)) interrupted by a mapped Tap
\* key j (SendKey(c)) before the threshold: KeyPress(k), KeyPress(j),
\* KeyRelease(j), KeyRelease(k) return exactly one SendCode(h), one Stop(h),
\* one SendCode(c) and one Stop(c), and SendCode(h) comes before every
\* output of key j.
C5_Events(i, k, j) ==
    /\ Starts(i, 4)
    /\ j # k
    /\ Ev(i) = KeyPress(k)
    /\ Ev(i + 1) = KeyPress(j)
    /\ trace[i + 1].at - trace[i].at < hold_ksm_delay
    /\ Ev(i + 2) = KeyRelease(j)
    /\ Ev(i + 3) = KeyRelease(k)

C5_Confs(i, k, j, h, c) ==
    /\ ConfAt(i, k).kind = "Hold"
    /\ IsSend(ConfAt(i, k).hold, h)
    /\ ConfAt(i + 1, j).kind = "Tap"
    /\ IsSend(ConfAt(i + 1, j).tap, c)

C5_Ordered(o, h, c) ==
    /\ Count(o, SendCode(h)) = 1
    /\ Count(o, Stop(h)) = 1
    /\ Count(o, SendCode(c)) = 1
    /\ Count(o, Stop(c)) = 1
    /\ \A m, n \in 1..Len(o) :
           (o[m] = SendCode(h) /\ o[n] \in {SendCode(c), Stop(c)}) => m < n

C5_HoldInterrupted ==
    \A i \in Calls : \A k, j \in Keys : C5_Events(i, k, j) => \A h, c \in Codes :
        C5_Confs(i, k, j, h, c) => C5_Ordered(OutFrom(i, i + 3), h, c)

C5_Witness ==
    \E i \in Calls : \E k, j \in Keys : \E h, c \in Codes :
        /\ C5_Events(i, k, j) /\ C5_Confs(i, k, j, h, c)
        /\ C5_Ordered(OutFrom(i, i + 3), h, c)

\* C6: an EagerHold{tap: SendKey(t), hold: SendKey(h)} key pressed with no
\* other machine live, released before the threshold and then polled: the
\* press returns [SendCode(h)], the release [Stop(h)], the Poll
\* [SendCode(t), Stop(t)]; the machine finished in the Poll with the cleanup
\* set [tap.invert()] and is gone.
C6_Events(i, k) ==
    /\ Starts(i, 3)
    /\ Ev(i) = KeyPress(k)
    /\ Ev(i + 1) = KeyRelease(k)
    /\ trace[i + 1].at - trace[i].at < hold_ksm_delay
    /\ Ev(i + 2) = Poll

C6_Confs(i, k, t, h) ==
    /\ ConfAt(i, k).kind = "EagerHold"
    /\ IsSend(ConfAt(i, k).tap, t)
    /\ IsSend(ConfAt(i, k).hold, h)

C6_EagerHoldEarlyRelease ==
    \A i \in Calls : \A k \in Keys : C6_Events(i, k) => \A t, h \in Codes :
        C6_Confs(i, k, t, h) =>
            /\ outs[i] = <<SendCode(h)>>
            /\ outs[i + 1] = <<Stop(h)>>
            /\ outs[i + 2] = <<SendCode(t), Stop(t)>>
            /\ k \notin LiveAfter(i + 2)
            /\ (i + 2 = Len(trace))
                   => harvest = <<[key |-> k, set |-> Single(StopKey(t))]>>

C6_Witness ==
    \E i \in Calls : \E k \in Keys : \E t, h \in Codes :
        /\ C6_Events(i, k) /\ C6_Confs(i, k, t, h)
        /\ i + 2 = Len(trace)
        /\ OutFrom(i, i + 2) = <<SendCode(h), Stop(h), SendCode(t), Stop(t)>>
        /\ harvest = <<[key |-> k, set |-> Single(StopKey(t))]>>

\* C7: from a fresh engine, with key a Tap{PushLayer(L)} on the default layer
\* and key b SendKey(x) on layer L and SendKey(y) on the default layer,
\* KeyPress(a), KeyPress(b), KeyRelease(b), KeyRelease(a) return exactly
\* [SendCode(x), Stop(x)] and leave the layer stack empty.
C7_Events(i, a, b) ==
    /\ Starts(i, 4)
    /\ trace[i].stack = <<>>
    /\ a # b
    /\ Ev(i) = KeyPress(a)
    /\ Ev(i + 1) = KeyPress(b)
    /\ Ev(i + 2) = KeyRelease(b)
    /\ Ev(i + 3) = KeyRelease(a)

C7_Confs(a, b, L, x, y) ==
    /\ get_conf(layer_mapper, default_layer, a) = TapConf(Single(PushLayer(L)))
    /\ get_conf(layer_mapper, L, b) = TapConf(Single(SendKey(x)))
    /\ get_conf(layer_mapper, default_layer, b) = TapConf(Single(SendKey(y)))

\* the layer ids the mappers have entries for
Layers == {x[1] : x \in UNION {DOMAIN mp : mp \in Mappers}}

C7_LayerPushPop ==
    \A i \in Calls : \A a, b \in Keys : C7_Events(i, a, b) =>
        \A L \in Layers : \A x, y \in Codes :
            C7_Confs(a, b, L, x, y) =>
                /\ OutFrom(i, i + 3) = <<SendCode(x), Stop(x)>>
                /\ outs[i] = <<>>
                /\ StackAfter(i + 3) = <<>>

C7_Witness ==
    \E i \in Calls : \E a, b \in Keys : \E L \in Layers : \E x, y \in Codes :
        /\ C7_Events(i, a, b) /\ C7_Confs(a, b, L, x, y)
        /\ x # y
        /\ OutFrom(i, i + 3) = <<SendCode(x), Stop(x)>>
        /\ StackAfter(i + 3) = <<>>

\* C8: after every transition call at most one live machine watches any
\* given key id: no key id has two entries among the machines the engine
\* steps, also after a repeated KeyPress of a key that was not released.
C8_OneMachinePerKey ==
    \A k \in Keys :
        /\ Cardinality({n \in 1..Len(state_machine_order) :
                            get_watched_key(state_machines[state_machine_order[n]]) = k}) <= 1
        /\ Cardinality({id \in DOMAIN state_machines :
                            get_watched_key(state_machines[id]) = k}) <= 1

C8_Witness ==
    /\ Len(trace) > 0
    /\ Ev(Len(trace)).type = "KeyPress"
    /\ Ev(Len(trace)).key \in trace[Len(trace)].live
    /\ Ev(Len(trace)).key \in DOMAIN state_machines

\* the key ids of the creation-order list
OrderKeys == {state_machine_order[n] : n \in 1..Len(state_machine_order)}

\* C9: after every transition call the creation-order list holds exactly the
\* keys of the machine map, each once.
C9_OrderMatchesMap ==
    /\ OrderKeys = DOMAIN state_machines
    /\ Len(state_machine_order) = Cardinality(DOMAIN state_machines)

C9_Witness ==
    /\ Len(trace) > 0
    /\ trace[Len(trace)].live \ DOMAIN state_machines # {}
    /\ DOMAIN state_machines # {}
    /\ OrderKeys = DOMAIN state_machines

\* the machines the last call dropped
Dropped == IF Len(trace) = 0 THEN {} ELSE trace[Len(trace)].live \ DOMAIN state_machines

\* C10: after every transition call no machine of the map is finished, and
\* the call harvested the cleanup of exactly the machines it dropped, once
\* each, so that no machine's cleanup is harvested in two calls.
C10_DroppedWhenFinished ==
    /\ \A k \in DOMAIN state_machines : ~is_finished(state_machines[k])
    /\ {harvest[n].key : n \in 1..Len(harvest)} = Dropped
    /\ \A k \in Dropped : Cardinality({n \in 1..Len(harvest) : harvest[n].key = k}) = 1

C10_Witness ==
    /\ Dropped # {}
    /\ Len(harvest) = Cardinality(Dropped)

-----------------------------------------------------------------------------
\* C11: the engine is total: no event, whatever KeyConf variant the mapper
\* returns for a pressed key (DoubleTap and DoubleTapHold included), drives
\* transition into a panic; every call returns its actions.
C11_Total == ~aborted

-----------------------------------------------------------------------------
\* call i is the press of key k, no machine watches k and the mapper has no
\* configuration for k on the active layer
C12_Unmapped(i, k) ==
    Ev(i) = KeyPress(k) /\ k \notin trace[i].live /\ ConfAt(i, k) = NoConf

\* C12: the press of a key the mapper has no configuration for on the active
\* layer creates no machine and no machine emits for that key; when no machine
\* is live the call returns no action and leaves the machine map, the order
\* list and the layer stack as they were, and a KeyRelease of the key that
\* follows returns no action either.
C12_UnmappedPress ==
    \A i \in Calls : \A k \in Keys :
        C12_Unmapped(i, k) =>
            /\ LiveAfter(i) \subseteq trace[i].live
            /\ \A n \in DOMAIN trace[i].emitted : trace[i].emitted[n].key # k
            /\ trace[i].live = {} =>
                  /\ outs[i] = <<>>
                  /\ LiveAfter(i) = {}
                  /\ StackAfter(i) = trace[i].stack
                  /\ i = Len(trace) => state_machine_order = <<>>
                  /\ (i < Len(trace) /\ Ev(i + 1) = KeyRelease(k)) => outs[i + 1] = <<>>

\* an unmapped key was pressed while no machine was live, then released
C12_Witness ==
    \E i \in Calls : \E k \in Keys :
        /\ C12_Unmapped(i, k)
        /\ trace[i].live = {}
        /\ i < Len(trace)
        /\ Ev(i + 1) = KeyRelease(k)

-----------------------------------------------------------------------------
\* the call, up to call i, that created the machine watching key k: the last
\* press of k that found no machine for it (0 when there is none)
BornAt(i, k) ==
    LET born == {j \in 1..i : Ev(j) = KeyPress(k) /\ k \notin trace[j].live}
    IN IF born = {} THEN 0 ELSE CHOOSE j \in born : \A h \in born : h <= j

\* the KeyConf a machine was built from
MachineConf(m) ==
    IF m.kind = "Tap" THEN TapConf(m.conf.tap)
    ELSE [kind |-> m.kind, tap |-> m.key_conf.tap, hold |-> m.key_conf.hold]

\* how often key k occurs in the order list ord
Occurrences(ord, k) == Cardinality({n \in DOMAIN ord : ord[n] = k})

\* C13: a KeyPress of a key that a live machine watches creates no second
\* machine and does not replace the machine's configuration, which stays the
\* one looked up at the press that created it even when the active layer has
\* changed since; the press is only forwarded: what is emitted for the key is
\* an action set of that configuration.
C13_DuplicatePress ==
    /\ \A k \in DOMAIN state_machines :
          /\ MachineConf(state_machines[k]) = ConfAt(BornAt(Len(trace), k), k)
          /\ Occurrences(state_machine_order, k) = 1
    /\ \A i \in Calls : \A k \in trace[i].live :
          Ev(i) = KeyPress(k) =>
              \A n \in DOMAIN trace[i].emitted :
                  trace[i].emitted[n].key = k =>
                      /\ trace[i].emitted[n].set \in ConfSets(ConfAt(BornAt(i, k), k))
                      /\ \A h \in DOMAIN trace[i].emitted :
                            trace[i].emitted[h].key = k => h = n

\* a key with a live machine was pressed again after the active layer changed
\* to one that maps the key differently, and its machine is still live
C13_Witness ==
    /\ Len(trace) > 0
    /\ \E k \in DOMAIN state_machines :
          /\ Ev(Len(trace)) = KeyPress(k)
          /\ k \in trace[Len(trace)].live
          /\ ConfAt(Len(trace), k) \notin {NoConf, ConfAt(BornAt(Len(trace), k), k)}
          /\ \E n \in DOMAIN trace[Len(trace)].emitted : trace[Len(trace)].emitted[n].key = k

-----------------------------------------------------------------------------
\* C14: a KeyRelease of a key no live machine watches raises no error and
\* creates no machine; when no machine is live at all, a KeyRelease and a Poll
\* return no action and leave the machine map, the order list and the layer
\* stack as they were.
C14_ReleaseWithoutPress ==
    /\ ~aborted
    /\ \A i \in Calls :
          /\ (Ev(i).type = "KeyRelease" /\ Ev(i).key \notin trace[i].live) =>
                LiveAfter(i) \subseteq trace[i].live
          /\ (Ev(i).type \in {"KeyRelease", "Poll"} /\ trace[i].live = {}) =>
                /\ outs[i] = <<>>
                /\ LiveAfter(i) = {}
                /\ StackAfter(i) = trace[i].stack
                /\ i = Len(trace) => state_machine_order = <<>>

\* a key without a machine was released while other machines were live, and
\* a key was released and a Poll delivered while no machine was live
C14_Witness ==
    /\ \E i \in Calls :
          Ev(i).type = "KeyRelease" /\ Ev(i).key \notin trace[i].live /\ trace[i].live # {}
    /\ \E i \in Calls : Ev(i).type = "KeyRelease" /\ trace[i].live = {}
    /\ \E i \in Calls : Ev(i) = Poll /\ trace[i].live = {}

-----------------------------------------------------------------------------
\* the actions handle_key_action returns for the key actions of a pending queue
Actions(q) == ApplyAll(<<>>, Flatten(q)).actions

\* C15: within one call, the action sets the live machines emit for the event
\* are queued, and their actions returned, in the order the machines were
\* created (oldest first), whichever machines were dropped before.
C15_CreationOrder ==
    \A i \in Calls :
        LET e == trace[i].emitted
        IN /\ \A a, b \in DOMAIN e :
                 a < b => BornAt(i, e[a].key) < BornAt(i, e[b].key)
           /\ Len(outs[i]) >= Len(Actions(e))
           /\ SubSeq(outs[i], 1, Len(Actions(e))) = Actions(e)

\* two machines emitted actions in one call after an older machine had been
\* dropped from the head of the order list while one of them was live
C15_Witness ==
    \E i \in Calls :
        /\ Len(trace[i].emitted) >= 2
        /\ Len(Actions(trace[i].emitted)) >= 2
        /\ \E j \in 1..(i - 1) :
              /\ LiveAfter(j) # trace[j].live
              /\ LiveAfter(j) \subseteq trace[j].live
              /\ LiveAfter(j) # {}
              /\ \A k \in LiveAfter(j) : \A d \in trace[j].live \ LiveAfter(j) :
                    BornAt(j, d) < BornAt(j, k)

-----------------------------------------------------------------------------
\* C16: within one call the actions of the cleanup sets of the machines that
\* finish come after the actions of the sets the machines emitted for the
\* event, so a finishing machine's cleanup follows its own emission.
C16_CleanupAfterEmission ==
    Len(trace) > 0 =>
        outs[Len(trace)] = Actions(trace[Len(trace)].emitted) \o Actions(harvest)

\* an EagerHold machine left Released in the last call: it emitted its tap set
\* and finished, so the call returned SendCode(tap) and, from cleanup, Stop(tap)
C16_Witness ==
    /\ Len(trace) > 0
    /\ \E n \in DOMAIN trace[Len(trace)].emitted : \E h \in DOMAIN harvest :
          LET e == trace[Len(trace)].emitted[n]
              k == e.key
          IN /\ harvest[h].key = k
             /\ ConfAt(BornAt(Len(trace), k), k).kind = "EagerHold"
             /\ e.set = ConfAt(BornAt(Len(trace), k), k).tap
             /\ harvest[h].set = KeyActionSet_invert(e.set)
             /\ Actions(<<e>>) # <<>>
             /\ Actions(<<harvest[h]>>) # <<>>

-----------------------------------------------------------------------------
\* the configuration of key k on the layer that is active after call i
ConfAfter(i, k) == get_conf(layer_mapper, get_active_layer(StackAfter(i)), k)

\* C17: the configuration of a newly pressed key is the one of the layer that
\* was active when the call began: the machine created carries it and, for a
\* Tap key, emits its tap set in that call, also when the same call pushes or
\* pops a layer; the new layer serves the lookups of later calls only.
C17_LookupBeforeStep ==
    /\ \A k \in DOMAIN state_machines :
          MachineConf(state_machines[k]) = ConfAt(BornAt(Len(trace), k), k)
    /\ \A i \in Calls : \A k \in Keys :
          (Ev(i) = KeyPress(k) /\ k \notin trace[i].live /\ ConfAt(i, k).kind = "Tap") =>
              /\ \E n \in DOMAIN trace[i].emitted :
                    /\ trace[i].emitted[n].key = k
                    /\ trace[i].emitted[n].set = ConfAt(i, k).tap
              /\ \A n \in DOMAIN trace[i].emitted :
                    trace[i].emitted[n].key = k =>
                        trace[i].emitted[n].set = ConfAt(i, k).tap

\* a Tap key was pressed in the call in which a waiting Hold key committed to
\* its hold action PushLayer(L); the key is mapped differently on L, the call
\* returned the code of the old layer, and a later press of the key returned
\* the code of L
C17_Witness ==
    \E i \in Calls : \E j \in Calls : \E k \in Keys : \E h \in Keys :
        /\ i < j
        /\ Ev(i) = KeyPress(k) /\ k \notin trace[i].live
        /\ h \in trace[i].live
        /\ ConfAt(BornAt(i, h), h).kind = "Hold"
        /\ \E n \in DOMAIN trace[i].emitted :
              /\ trace[i].emitted[n].key = h
              /\ trace[i].emitted[n].set = ConfAt(BornAt(i, h), h).hold
              /\ trace[i].emitted[n].set[1].op = "PushLayer"
        /\ StackAfter(i) # trace[i].stack
        /\ ConfAt(i, k).kind = "Tap" /\ ConfAfter(i, k).kind = "Tap"
        /\ ConfAt(i, k) # ConfAfter(i, k)
        /\ outs[i] = Actions(<<[key |-> k, set |-> ConfAt(i, k).tap]>>)
        /\ Ev(j) = KeyPress(k) /\ k \notin trace[j].live
        /\ ConfAt(j, k) = ConfAfter(i, k)
        /\ outs[j] = Actions(<<[key |-> k, set |-> ConfAfter(i, k).tap]>>)

-----------------------------------------------------------------------------
\* the machines whose cleanup sets the last call harvested
HarvestKeys == {harvest[n].key : n \in DOMAIN harvest}

\* the cleanup entries of the last call as a harvest visiting the machines in
\* the order iter would have queued them
RECURSIVE HarvestIn(_, _)
HarvestIn(iter, i) ==
    IF i > Len(iter) THEN <<>>
    ELSE SelectSeq(harvest, LAMBDA e : e.key = iter[i]) \o HarvestIn(iter, i + 1)

\* C18: the order in which the cleanup harvest visits the machine map cannot
\* be seen in the output: an engine in the same state, given the same event,
\* returns the same list of actions whichever order its harvest takes, also
\* when two or more machines finish in the call.
C18_HarvestOrderUnobservable ==
    Len(trace) > 0 =>
        \A iter \in IterOrders(HarvestKeys) :
            outs[Len(trace)] =
                Actions(trace[Len(trace)].emitted) \o Actions(HarvestIn(iter, 1))

-----------------------------------------------------------------------------
\* the layer ids the layer maps have entries for
LayerIds == {x[1] : x \in UNION {DOMAIN mp : mp \in LayerMappers}}

\* key actions that are no layer operation
PlainActions == {NoOp, SendKey(30), StopKey(30)}

\* C19: from every reachable layer stack, PushLayer(l) followed by the
\* matching PopLayer(l), with no layer operation between them, gives back the
\* layer stack, and so the active layer, of before the push.
C19_PushPopRestores ==
    \A l \in LayerIds : \A a \in PlainActions :
        LET pushed == handle_key_action(layer_stack, PushLayer(l)).layer_stack
            between == handle_key_action(pushed, a).layer_stack
            popped == handle_key_action(between, PopLayer(l)).layer_stack
        IN /\ get_active_layer(pushed) = l
           /\ popped = layer_stack
           /\ get_active_layer(popped) = get_active_layer(layer_stack)

\* on a stack that was not empty, a Tap key pushed its layer when pressed and
\* popped it when released, and the stack is as it was before the press
C19_Witness ==
    \E i \in Calls : \E k \in Keys : \E l \in LayerIds :
        /\ i < Len(trace)
        /\ trace[i].stack # <<>>
        /\ Ev(i) = KeyPress(k) /\ k \notin trace[i].live
        /\ ConfAt(i, k) = TapConf(Single(PushLayer(l)))
        /\ StackAfter(i) = Append(trace[i].stack, l)
        /\ Ev(i + 1) = KeyRelease(k)
        /\ StackAfter(i + 1) = trace[i].stack
        /\ get_active_layer(StackAfter(i + 1)) = get_active_layer(trace[i].stack)

-----------------------------------------------------------------------------
\* calls i..i+2, starting with no machine live: key a is pressed, key b is
\* pressed, key a is released
C20_Events(i, a, b) ==
    /\ Starts(i, 3)
    /\ a # b
    /\ Ev(i) = KeyPress(a)
    /\ Ev(i + 1) = KeyPress(b)
    /\ Ev(i + 2) = KeyRelease(a)

\* key a is Tap{PushLayer(L1)} on the layer active at call i, key b is
\* Tap{PushLayer(L2)} on the layer active at call i+1
C20_Confs(i, a, b, L1, L2) ==
    /\ L1 # L2
    /\ ConfAt(i, a) = TapConf(Single(PushLayer(L1)))
    /\ ConfAt(i + 1, b) = TapConf(Single(PushLayer(L2)))

\* C20: PopLayer(l) removes an occurrence of l and leaves the entries of the
\* other layers in place: when key a pushes L1, key b pushes L2 and key a is
\* released while b is held, the layer stack has lost L1, still contains L2,
\* and L2 is the active layer.
C20_PopKeepsOtherLayers ==
    \A i \in Calls : \A a, b \in Keys :
        C20_Events(i, a, b) =>
            \A L1, L2 \in LayerIds :
                C20_Confs(i, a, b, L1, L2) =>
                    /\ StackAfter(i + 2) = Append(trace[i].stack, L2)
                    /\ get_active_layer(StackAfter(i + 2)) = L2

-----------------------------------------------------------------------------
\* the codes of the layer maps
LayerCodes == UNION {MapperCodes(mp) : mp \in LayerMappers}

\* the layer stack ls without its last entry; ls itself when it is empty
WithoutTop(ls) == IF ls = <<>> THEN ls ELSE SubSeq(ls, 1, Len(ls) - 1)

-----------------------------------------------------------------------------
(* Reading the history of a machine driven on its own *)

\* the transition calls made on the machine
Steps == 1..Len(returned)

\* the machine after call i returned
After(i) == IF i = Len(returned) THEN ksm ELSE returned[i + 1].before

\* C22: once is_finished() is true of a key state machine (Tap, Hold or
\* EagerHold) it stays true: every further transition returns None, whatever
\* the event, and leaves the machine, its state and its cleanup sets, as it was.
C22_FinishedIsTerminal ==
    \A i \in Steps :
        is_finished(returned[i].before) =>
            /\ returned[i].out = None
            /\ After(i) = returned[i].before
            /\ is_finished(After(i))
            /\ get_cleanup_actions(After(i)) = get_cleanup_actions(returned[i].before)

\* a finished machine was given two more events, one of them a press of its key
C22_Witness ==
    \E i \in Steps : \E j \in Steps :
        /\ i < j
        /\ is_finished(returned[i].before)
        /\ returned[i].ev # returned[j].ev
        /\ KeyPress(watched_key) \in {returned[i].ev, returned[j].ev}

-----------------------------------------------------------------------------
\* the key actions the machine emitted in calls i..j, in order
RECURSIVE EmittedFrom(_, _)
EmittedFrom(i, j) ==
    IF i > j THEN <<>>
    ELSE (IF returned[i].out = None THEN <<>> ELSE get_actions(returned[i].out))
         \o EmittedFrom(i + 1, j)

\* the codes of the machines under test
TestCodes == {tap_key_code, hold_key_code}

\* C23: a key state machine never emits SendKey(x) twice without a StopKey(x)
\* between the two, and once it has finished every SendKey(x) it emitted is
\* followed by a StopKey(x) it emitted or matched by a StopKey(x) in its
\* cleanup sets, whatever events it was given, repeated presses of its key
\* included.
C23_SendStopPaired ==
    LET e == EmittedFrom(1, Len(returned))
    IN \A x \in TestCodes :
          /\ \A a, b \in DOMAIN e :
                (a < b /\ e[a] = SendKey(x) /\ e[b] = SendKey(x)) =>
                    \E c \in DOMAIN e : a < c /\ c < b /\ e[c] = StopKey(x)
          /\ is_finished(ksm) =>
                \A a \in DOMAIN e :
                    e[a] = SendKey(x) =>
                        \/ \E c \in DOMAIN e : a < c /\ e[c] = StopKey(x)
                        \/ \E n \in DOMAIN get_cleanup_actions(ksm) :
                              \E h \in DOMAIN get_cleanup_actions(ksm)[n] :
                                  get_cleanup_actions(ksm)[n][h] = StopKey(x)

-----------------------------------------------------------------------------
\* call i found a machine of the given type in the given state
Found(i, kind, state) ==
    returned[i].before.kind = kind /\ returned[i].before.state = state

\* the event of call i is a press / a release of the key the machine watches
PressOfWatched(i) == returned[i].ev = KeyPress(returned[i].before.watched_key)
ReleaseOfWatched(i) == returned[i].ev = KeyRelease(returned[i].before.watched_key)

\* the event of call i is a press of another key
PressOfOther(i) ==
    returned[i].ev.type = "KeyPress" /\ ~PressOfWatched(i)

\* at call i the hold threshold has passed since the press of the watched key
ThresholdPassed(i) ==
    returned[i].at - returned[i].before.timer_start >= returned[i].before.release_delay

\* C28: a HoldKSM in Waiting emits hold and moves to Hold on any event once
\* the threshold has passed, or on a KeyPress of another key; otherwise it
\* emits tap and moves to Released on KeyRelease(watched); otherwise it emits
\* nothing and stays Waiting.  The first KeyPress(watched) emits nothing.
C28_HoldWaiting ==
    \A i \in Steps :
        /\ (Found(i, "Hold", "Created") /\ PressOfWatched(i)) =>
              /\ returned[i].out = None
              /\ After(i).state = "Waiting"
        /\ Found(i, "Hold", "Waiting") =>
              IF ThresholdPassed(i) \/ PressOfOther(i)
              THEN /\ returned[i].out = returned[i].before.key_conf.hold
                   /\ After(i).state = "Hold"
              ELSE IF ReleaseOfWatched(i)
              THEN /\ returned[i].out = returned[i].before.key_conf.tap
                   /\ After(i).state = "Released"
              ELSE /\ returned[i].out = None
                   /\ After(i).state = "Waiting"

\* a Hold machine was pressed, ignored a Poll, a release of another key and a
\* repeated press before the threshold, and at the threshold answered the
\* release of its key with hold
C28_Witness ==
    /\ Len(returned) = 4
    /\ Found(1, "Hold", "Created") /\ PressOfWatched(1)
    /\ \A i \in 2..3 : Found(i, "Hold", "Waiting") /\ ~ThresholdPassed(i)
    /\ {returned[2].ev, returned[3].ev} \subseteq
          {Poll, KeyPress(watched_key)} \cup {KeyRelease(k) : k \in Keys \ {watched_key}}
    /\ returned[2].ev # returned[3].ev
    /\ Found(4, "Hold", "Waiting") /\ ThresholdPassed(4) /\ ReleaseOfWatched(4)
    /\ returned[4].out = Single(SendKey(hold_key_code))
    /\ ksm.state = "Hold"

-----------------------------------------------------------------------------
\* the calls in which the machine emitted the action set s
Emissions(s) == {i \in Steps : returned[i].out = s}

\* C29: a HoldKSM in Released is Finished after the next transition, whatever
\* the event, and emits nothing; a HoldKSM in Hold emits nothing on any event
\* and becomes Finished on KeyRelease(watched) only, so the hold set is
\* emitted at most once in a press cycle.
C29_HoldReleasedAndHold ==
    /\ \A i \in Steps :
          /\ Found(i, "Hold", "Released") =>
                /\ returned[i].out = None
                /\ After(i).state = "Finished"
          /\ Found(i, "Hold", "Hold") =>
                /\ returned[i].out = None
                /\ After(i).state = IF ReleaseOfWatched(i) THEN "Finished" ELSE "Hold"
    /\ ksm.kind = "Hold" => Cardinality(Emissions(ksm.key_conf.hold)) <= 1

\* a Hold machine that had emitted hold was given an event that is not the
\* release of its key and stayed in Hold, then the release, and finished
C29_Witness ==
    /\ Len(returned) = 4
    /\ Found(3, "Hold", "Hold") /\ ~ReleaseOfWatched(3)
    /\ Found(4, "Hold", "Hold") /\ ReleaseOfWatched(4)
    /\ Emissions(Single(SendKey(hold_key_code))) = {2}
    /\ ksm.state = "Finished"

\* a Hold machine in Released was given a Poll and finished
C29_WitnessReleased ==
    \E i \in Steps :
        /\ Found(i, "Hold", "Released")
        /\ returned[i].ev = Poll
        /\ After(i).state = "Finished"

-----------------------------------------------------------------------------
\* the inverse of the hold set of the machines under test, written out
HoldUndone == Single(StopKey(hold_key_code))

\* C30: an EagerHoldKSM emits hold on the first KeyPress(watched) and sets its
\* cleanup to [hold.invert()]; while Waiting, the threshold or a KeyPress of
\* another key moves it to Hold without emission; in Hold, KeyRelease(watched)
\* finishes it without emission, its cleanup still being [hold.invert()].
C30_EagerHold ==
    \A i \in Steps :
        /\ (Found(i, "EagerHold", "Created") /\ PressOfWatched(i)) =>
              /\ returned[i].out = returned[i].before.key_conf.hold
              /\ After(i).state = "Waiting"
              /\ After(i).timer_start = returned[i].at
              /\ get_cleanup_actions(After(i)) = <<HoldUndone>>
        /\ (Found(i, "EagerHold", "Waiting") /\ (ThresholdPassed(i) \/ PressOfOther(i))) =>
              /\ returned[i].out = None
              /\ After(i).state = "Hold"
              /\ get_cleanup_actions(After(i)) = <<HoldUndone>>
        /\ Found(i, "EagerHold", "Hold") =>
              /\ returned[i].out = None
              /\ get_cleanup_actions(After(i)) = <<HoldUndone>>
              /\ After(i).state = IF ReleaseOfWatched(i) THEN "Finished" ELSE "Hold"

\* an EagerHold machine emitted hold when pressed, moved to Hold at the
\* threshold and finished on the release of its key with cleanup [StopKey(hold)]
C30_Witness ==
    /\ Len(returned) = 3
    /\ Found(1, "EagerHold", "Created") /\ PressOfWatched(1)
    /\ returned[1].out = Single(SendKey(hold_key_code))
    /\ Found(2, "EagerHold", "Waiting") /\ ThresholdPassed(2) /\ returned[2].ev = Poll
    /\ Found(3, "EagerHold", "Hold") /\ ReleaseOfWatched(3)
    /\ is_finished(ksm)
    /\ get_cleanup_actions(ksm) = <<Single(StopKey(hold_key_code))>>

-----------------------------------------------------------------------------
\* C24: inversion is an involution: a KeyAction inverted twice is the action
\* (all five variants), and a KeyActionSet inverted twice is the set (Single,
\* Double and Triple).
C24_InvertInvolution ==
    /\ Len(subject.singly) >= 2 => subject.singly[2] = subject.args[1]
    /\ Len(subject.inverted) >= 2 => subject.inverted[2] = subject.set
    /\ \A n \in 3..Len(subject.inverted) : subject.inverted[n] = subject.inverted[n - 2]

\* a Triple holding a PopLayer, a SendKey and NoOp was inverted twice, to a
\* different set and back
C24_Witness ==
    /\ Len(subject.inverted) = 2
    /\ Len(subject.set) = 3
    /\ {subject.args[i].op : i \in 1..3} = {"PopLayer", "SendKey", "NoOp"}
    /\ subject.inverted[1] # subject.set
    /\ subject.inverted[2] = subject.set

-----------------------------------------------------------------------------
\* the variant that undoes each variant of KeyAction
Opposite ==
    [SendKey |-> "StopKey", StopKey |-> "SendKey", PushLayer |-> "PopLayer",
     PopLayer |-> "PushLayer", NoOp |-> "NoOp"]

\* the value each invert call was made on
InvertedFrom(n) == IF n = 1 THEN subject.set ELSE subject.inverted[n - 1]

\* C25: KeyActionSet::invert returns a set of the same cardinality whose
\* member at each position is the inverse of the member at that position (the
\* order is kept, not reversed), and get_actions yields the members in
\* declaration order.
C25_InvertPointwise ==
    /\ \A n \in 1..Len(subject.inverted) :
           /\ Len(subject.inverted[n]) = Len(InvertedFrom(n))
           /\ \A i \in 1..Len(InvertedFrom(n)) :
                  /\ subject.inverted[n][i].op = Opposite[InvertedFrom(n)[i].op]
                  /\ subject.inverted[n][i].v = InvertedFrom(n)[i].v
    /\ \A c \in 1..Len(subject.listed) :
           /\ Len(subject.listed[c].got) = Len(subject.listed[c].of)
           /\ \A i \in 1..Len(subject.listed[c].got) :
                  subject.listed[c].got[i] = subject.listed[c].of[i]
    /\ \A c \in 1..Len(subject.listed) :
           subject.inverted = <<>> => subject.listed[c].got = subject.args

\* a Triple of three different variants was inverted once and then listed:
\* the list is StopKey, PopLayer, SendKey for SendKey, PushLayer, StopKey
C25_Witness ==
    /\ subject.args = <<SendKey(1), PushLayer(1), StopKey(2)>>
    /\ Len(subject.inverted) = 1
    /\ Len(subject.listed) = 1
    /\ subject.listed[1].got = <<StopKey(1), PopLayer(1), SendKey(2)>>

-----------------------------------------------------------------------------
\* C26: MapOrEchoMapper.get_conf(layer, key) returns the KeyConf stored for
\* (layer, key) when the table has one, and otherwise a Tap configuration
\* whose tap set is Single(SendKey(key)); it never returns None.
C26_MapOrEcho ==
    \A i \in 1..Len(subject) :
        LET asked == <<subject[i].layer, subject[i].key>>
        IN /\ subject[i].conf.kind # "None"
           /\ asked \in DOMAIN layer_mapper => subject[i].conf = layer_mapper[asked]
           /\ asked \notin DOMAIN layer_mapper =>
                 /\ subject[i].conf.kind = "Tap"
                 /\ subject[i].conf.tap = <<[op |-> "SendKey", v |-> subject[i].key]>>

\* the mapper answered a stored Hold configuration for (0, 1) and echoed key 1
\* on layer 2, which the table does not mention
C26_Witness ==
    /\ Len(subject) = 2
    /\ <<0, 1>> \in DOMAIN layer_mapper
    /\ subject[1].layer = 0 /\ subject[1].key = 1 /\ subject[1].conf.kind = "Hold"
    /\ subject[2].layer = 2 /\ subject[2].key = 1
    /\ subject[2].conf = [kind |-> "Tap", tap |-> <<[op |-> "SendKey", v |-> 1]>>]

-----------------------------------------------------------------------------
\* the events next has returned so far, the None answers left out
RECURSIVE Some(_)
Some(ys) ==
    IF ys = <<>> THEN <<>>
    ELSE IF Head(ys) # NoEvent THEN <<Head(ys)>> \o Some(Tail(ys))
    ELSE Some(Tail(ys))

\* C27: EventIter yields the events in the order in which they were read from
\* the device, also the events read in one batch of read_all_events.
C27_ReadOrder ==
    LET got == Some(yielded)
    IN /\ Len(got) <= Len(device.read)
       /\ got = SubSeq(device.read, 1, Len(got))

-----------------------------------------------------------------------------
\* call i found a live Tap machine
FoundLiveTap(i) ==
    returned[i].before.kind = "Tap" /\ ~is_finished(returned[i].before)

\* C31: a TapKSM reacts only to events on its watched key: Poll and the press
\* or release of another key emit nothing and leave it live with its cleanup
\* set [tap.invert()]; KeyPress(watched) emits tap and leaves it live;
\* KeyRelease(watched) emits nothing and finishes it.
C31_TapWatchedKeyOnly ==
    \A i \in Steps :
        FoundLiveTap(i) =>
            /\ get_cleanup_actions(After(i)) = <<Single(StopKey(tap_key_code))>>
            /\ After(i).watched_key = watched_key
            /\ PressOfWatched(i) =>
                  /\ returned[i].out = Single(SendKey(tap_key_code))
                  /\ ~is_finished(After(i))
            /\ ReleaseOfWatched(i) =>
                  /\ returned[i].out = None
                  /\ is_finished(After(i))
            /\ (~PressOfWatched(i) /\ ~ReleaseOfWatched(i)) =>
                  /\ returned[i].out = None
                  /\ After(i) = returned[i].before

\* a live Tap machine was given a Poll, the press and the release of another
\* key, then the press of its own key
C31_Witness ==
    /\ Len(returned) = 4
    /\ \A i \in Steps : FoundLiveTap(i)
    /\ returned[1].ev = Poll
    /\ returned[2].ev.type = "KeyPress" /\ returned[2].ev.key # watched_key
    /\ returned[3].ev.type = "KeyRelease" /\ returned[3].ev.key # watched_key
    /\ PressOfWatched(4)
    /\ returned[4].out = Single(SendKey(tap_key_code))

-----------------------------------------------------------------------------
\* call i is the press of a key that has no machine and is configured DoubleTap
PressOfDoubleTap(i, k) ==
    /\ Ev(i) = KeyPress(k)
    /\ k \notin trace[i].live
    /\ ConfAt(i, k).kind = "DoubleTap"

\* C32: a key configured DoubleTap{tap, double_tap} performs double_tap when
\* it is pressed, released and pressed again within the retap threshold, and
\* tap when another key is pressed after its release: the press of the key
\* starts a machine for it (the call returns), and the third call returns
\* the code of double_tap, or of tap.
C32_DoubleTapKey ==
    \A i \in Calls : \A k \in Keys :
        PressOfDoubleTap(i, k) =>
            /\ i \in DOMAIN outs
            /\ k \in LiveAfter(i)
            /\ (i + 2 <= Len(trace) /\ Ev(i + 1) = KeyRelease(k)
                    /\ trace[i + 2].at = trace[i + 1].at) =>
                  /\ Ev(i + 2) = KeyPress(k) =>
                        \E n \in DOMAIN outs[i + 2] :
                            Single(SendKey(outs[i + 2][n].v)) = ConfAt(i, k).double_tap
                  /\ (Ev(i + 2).type = "KeyPress" /\ Ev(i + 2).key # k) =>
                        \E n \in DOMAIN outs[i + 2] :
                            Single(SendKey(outs[i + 2][n].v)) = ConfAt(i, k).tap

-----------------------------------------------------------------------------
\* call i left a DoubleTapKSM in an accepting state
Accepted(i) ==
    After(i).kind = "DoubleTap" /\ After(i).state \in {"Timeout", "Retap"}

\* C33: a Double-Tap machine that reaches an accepting state emits its action
\* (tap for Timeout, double_tap for Retap) exactly once and is then
\* Finished: every later transition returns no action set.
C33_DoubleTapEmitsOnce ==
    \A i \in Steps :
        (Accepted(i) /\ returned[i].before.state \notin {"Timeout", "Retap"}) =>
            /\ returned[i].out = (IF After(i).state = "Timeout"
                                  THEN After(i).key_conf.tap
                                  ELSE After(i).key_conf.double_tap)
            /\ \A j \in Steps : j > i => returned[j].out = None

-----------------------------------------------------------------------------
\* call i found a DoubleTapHoldKSM in the given state
FoundDoubleTapHold(i, state) ==
    returned[i].before.kind = "DoubleTapHold" /\ returned[i].before.state = state

\* C34: a Double-Tap-Hold machine in Waiting emits hold when the hold
\* threshold has expired or another key is pressed, and moves to Released on
\* KeyRelease(watched); from Released a KeyPress(watched) within the retap
\* threshold emits double_tap, and an expired retap window or the press of
\* another key emits tap.
C34_DoubleTapHold ==
    \A i \in Steps :
        /\ FoundDoubleTapHold(i, "Waiting") =>
              /\ (returned[i].at - returned[i].before.created > returned[i].before.hold_threshold
                     \/ PressOfOther(i)) =>
                    returned[i].out = returned[i].before.key_conf.hold
              /\ (ReleaseOfWatched(i)
                     /\ returned[i].at - returned[i].before.created
                            <= returned[i].before.hold_threshold) =>
                    After(i).state = "Released"
        /\ FoundDoubleTapHold(i, "Released") =>
              LET late == returned[i].at - returned[i].before.released
                              > returned[i].before.retap_threshold
              IN /\ (PressOfWatched(i) /\ ~late) =>
                       returned[i].out = returned[i].before.key_conf.double_tap
                 /\ (late \/ PressOfOther(i)) =>
                       returned[i].out = returned[i].before.key_conf.tap

-----------------------------------------------------------------------------
\* calls i..j are a press cycle of the Hold or EagerHold key k: call i is its
\* press while no machine watches it, call j its release, Polls only between
PressCycle(i, j, k) ==
    /\ i < j
    /\ Ev(i) = KeyPress(k)
    /\ k \notin trace[i].live
    /\ ConfAt(i, k).kind \in {"Hold", "EagerHold"}
    /\ \A n \in (i + 1)..(j - 1) : Ev(n) = Poll
    /\ Ev(j) = KeyRelease(k)

\* C35: every Hold or EagerHold machine is dropped once its key has been
\* released: after KeyPress(k), any number of Polls and any elapsed time,
\* KeyRelease(k) and then one Poll, no live machine watches k, also when the
\* release is the first event delivered after the hold threshold.
C35_ReleasedIsDropped ==
    \A i \in Calls : \A j \in Calls : \A k \in Keys :
        (PressCycle(i, j, k) /\ j + 1 <= Len(trace) /\ Ev(j + 1) = Poll) =>
            k \notin LiveAfter(j + 1)

-----------------------------------------------------------------------------
\* calls i and i + 1 are a tap of the Hold or EagerHold key k: its press and,
\* before the hold threshold, its release
Tapped(i, k) ==
    /\ i + 1 <= Len(trace)
    /\ PressCycle(i, i + 1, k)
    /\ trace[i + 1].at - trace[i].at < hold_ksm_delay

\* C36: the press of a mapped key is never swallowed: when the Hold or
\* EagerHold key k is tapped and KeyPress(k) is the very next event, a live
\* machine watches k after that call, so that the second press cycle can
\* produce its own tap or hold.
C36_PressNotSwallowed ==
    \A i \in Calls : \A k \in Keys :
        (Tapped(i, k) /\ i + 2 <= Len(trace) /\ Ev(i + 2) = KeyPress(k)) =>
            k \in LiveAfter(i + 2)

-----------------------------------------------------------------------------
\* call i is the press of the Tap key k, which sends code c, while no machine
\* watches it, and call j is its first release after that
TapHeld(i, j, k, c) ==
    /\ i < j
    /\ Ev(i) = KeyPress(k)
    /\ k \notin trace[i].live
    /\ ConfAt(i, k) = TapConf(Single(SendKey(c)))
    /\ Ev(j) = KeyRelease(k)
    /\ \A n \in (i + 1)..(j - 1) : Ev(n) # KeyRelease(k)

\* the codes the Tap key k sends on one layer or another
KeyCodes(k) ==
    {c \in LayerCodes :
        \E l \in LayerIds : get_conf(layer_mapper, l, k) = TapConf(Single(SendKey(c)))}

\* C37: the Stop returned when a Tap key is released carries the code of the
\* SendCode returned when it was pressed, also when the active layer changed
\* between the press and the release: the machine keeps the configuration
\* captured at its creation.
C37_StopKeepsCode ==
    \A i \in Calls : \A j \in Calls : \A k \in Keys : \A c \in LayerCodes :
        TapHeld(i, j, k, c) =>
            /\ \E n \in DOMAIN outs[i] : outs[i][n] = SendCode(c)
            /\ \E n \in DOMAIN outs[j] : outs[j][n] = Stop(c)
            /\ \A n \in DOMAIN outs[j] :
                  (outs[j][n].op = "Stop" /\ outs[j][n].v \in KeyCodes(k)) =>
                      outs[j][n].v = c

\* a key was pressed on a pushed layer, the layer key was released first, and
\* the release of the key returned the Stop of the code of the pushed layer,
\* which is not the code the key has on the layer active at its release
C37_Witness ==
    \E i \in Calls : \E j \in Calls : \E k \in Keys : \E c \in LayerCodes :
        /\ TapHeld(i, j, k, c)
        /\ trace[i].stack # <<>>
        /\ trace[j].stack = <<>>
        /\ ConfAt(j, k).kind = "Tap"
        /\ ConfAt(j, k) # ConfAt(i, k)
        /\ outs[j] = <<Stop(c)>>

-----------------------------------------------------------------------------
\* C38: in every reachable state in which no machine is live the layer stack
\* is empty (the active layer is the default layer), for a configuration
\* whose only layer actions are PushLayer members of tap or hold sets and for
\* any event sequence, overlapping layer keys and a repeated KeyPress of a
\* layer key included.
C38_IdleStackEmpty ==
    DOMAIN state_machines = {} => layer_stack = <<>>

-----------------------------------------------------------------------------
\* the output stream: the actions of all calls so far, concatenated
Stream == OutFrom(1, Len(outs))

\* C39: in the concatenation of the outputs of successive transition calls
\* no Stop(t) comes without an unmatched SendCode(t) before it: in every
\* prefix of the stream the Stop(t) are at most as many as the SendCode(t),
\* for a configuration whose action sets hold SendKey, PushLayer and NoOp only.
C39_StopAfterSend ==
    \A t \in Codes : \A p \in 0..Len(Stream) :
        Count(SubSeq(Stream, 1, p), Stop(t)) <= Count(SubSeq(Stream, 1, p), SendCode(t))

\* an EagerHold key was tapped: the stream is the hold code sent and stopped,
\* then the tap code sent and stopped
C39_Witness ==
    \E h \in Codes : \E c \in Codes :
        /\ h # c
        /\ Stream = <<SendCode(h), Stop(h), SendCode(c), Stop(c)>>

-----------------------------------------------------------------------------
\* key k is down before call i: it was pressed and not released since
Down(i, k) ==
    \E p \in 1..(i - 1) :
        /\ Ev(p) = KeyPress(k)
        /\ \A n \in (p + 1)..(i - 1) : Ev(n) # KeyRelease(k)

\* up to call i every KeyRelease(k) was preceded by a KeyPress(k) not yet released
Orderly(i) ==
    \A j \in 1..i : Ev(j).type = "KeyRelease" => Down(j, Ev(j).key)

\* C40: pass-through equivalence: an SMKeyboard over a MapOrEchoMapper with
\* an empty table returns, for every event of every event sequence in which
\* each KeyRelease(k) is preceded by a KeyPress(k) not yet released, the
\* action list EchoerKb returns: [SendCode(k)] for KeyPress(k), [Stop(k)]
\* for KeyRelease(k), [] for Poll.
C40_EchoEquivalence ==
    \A i \in Calls :
        Orderly(i) => (i \in DOMAIN outs /\ outs[i] = EchoerKb_transition(Ev(i)))

\* two keys were held down together, one of them pressed twice, and both
\* released: the engine answered every event as EchoerKb does
C40_Witness ==
    /\ Len(trace) = 4
    /\ Orderly(4)
    /\ \E a \in Keys : \E b \in Keys :
          /\ a # b
          /\ Ev(1) = KeyPress(a) /\ Ev(2) = KeyPress(b)
          /\ Ev(3) = KeyPress(a) /\ Ev(4) = KeyRelease(a)
          /\ outs = <<<<SendCode(a)>>, <<SendCode(b)>>, <<SendCode(a)>>, <<Stop(a)>>>>

====
